---- MODULE Spec2Model ----
(***************************************************************************)
(* Asynchronous remote-operation reconciliation in the Power resources of  *)
(* the provider: the poll-based waits (a StateChangeConf and its refresh   *)
(* function, run by WaitForStateContext) and the create / update / delete  *)
(* handlers that issue a remote call and then block on such a wait.        *)
(*                                                                         *)
(* A wait is two threads: the refresh goroutine (delay, then repeatedly    *)
(* store the last result, sleep, fetch, classify) and the caller's select  *)
(* loop (result channel, context, timeout, then the refresh grace period). *)
(* Time is abstract: a timer may fire at any moment it is armed.           *)
(***************************************************************************)
EXTENDS Integers, Sequences, FiniteSets, TLC

\* Bound of the model: the number of status fetches one wait may perform.
MaxFetches == 3

\* ------------------------------------------------------------------------
\* Values

NoErr == [kind |-> "nil", msg |-> ""]
Err(k, m) == [kind |-> k, msg |-> m]

\* What one remote Get can answer: an error class, or a payload.
\*   err    : "none", "NotFound" (the typed not-found error of the SDK
\*            client) or "Other" (any other remote failure)
\*   status : the payload's status / state field
\*   health : the instance's health status
\*   fault  : the instance's fault message, "" when the payload has none
\*   pct    : the snapshot's percent complete
\*   vlan   : whether the network payload carries a VLAN id
\*   shape  : "ok", or "nil" for a job payload that is nil or has no status
Obs(e, s) == [err |-> e, status |-> s, health |-> "OK", fault |-> "",
              pct |-> 100, vlan |-> FALSE, shape |-> "ok"]
GetErrors == {Obs("NotFound", ""), Obs("Other", "")}

\* A refresh function's triple (result, state, error).  res is "nil" for
\* the untyped nil, "typednil" for a nil pointer of the payload type (a
\* non-nil interface value) and "obj" for a payload.
Refreshed(res, state, err) == [res |-> res, state |-> state, err |-> err]

\* The error a failed client.Get hands to the refresh function.
GetError(o) == Err(o.err, "get failed")

\* ------------------------------------------------------------------------
\* State names of the package (ibm_pi_constants.go)

State_Available == "ACTIVE"
State_Build == "build"
State_Building == "BUILD"
State_Delete == "delete"
State_Deleting == "deleting"
State_NotFound == "Not Found"
State_Retry == "retry"
PIVolumeProvisioning == "creating"
PIVolumeProvisioningDone == "available"
Attr_VolumeProvisioning == "creating"
Attr_VolumeProvisioningDone == "available"
PVMInstanceHealthOk == "OK"
PVMInstanceHealthWarning == "WARNING"
StatusPending == "PENDING"
StatusShutoff == "SHUTOFF"
StatusError == "ERROR"
Status_Retry == "retry"
Status_Queued == "queued"
Status_Active == "active"
Status_ReadyForProcessing == "readyForProcessing"
Status_InProgress == "inProgress"
Status_Running == "running"
Status_Waiting == "waiting"
Status_Completed == "completed"
Status_Failed == "failed"
PINetworkProvisioning == "build"
State_Pending == "pending"
State_Removed == "removed"

\* ------------------------------------------------------------------------
\* Refresh functions

\* A variant that no longer counts an attached ("in-use") volume as
\* provisioned.
isIBMPIVolumeRefreshFunc_InUsePending(o) ==
    IF o.err # "none" THEN Refreshed("nil", "", GetError(o))
    ELSE IF o.status = "available"
         THEN Refreshed("obj", PIVolumeProvisioningDone, NoErr)
         ELSE Refreshed("obj", PIVolumeProvisioning, NoErr)

isIBMPIVolumeRefreshFunc(o) ==
    IF o.err # "none" THEN Refreshed("nil", "", GetError(o))
    ELSE IF o.status \in {"available", "in-use"}
         THEN Refreshed("obj", PIVolumeProvisioningDone, NoErr)
         ELSE Refreshed("obj", PIVolumeProvisioning, NoErr)

isIBMPIVolumeDeleteRefreshFunc(o) ==
    IF o.err = "NotFound" THEN Refreshed("typednil", "deleted", NoErr)
    ELSE IF o.err # "none" THEN Refreshed("nil", "", GetError(o))
    ELSE Refreshed("obj", "deleting", NoErr)

\* A variant that asks for a retry when the Get fails.
isIBMPIVolumeGroupRefreshFunc_RetryOnError(o) ==
    IF o.err # "none" THEN Refreshed("typednil", "retry", NoErr)
    ELSE IF o.status = "available"
         THEN Refreshed("obj", Attr_VolumeProvisioningDone, NoErr)
         ELSE Refreshed("obj", Attr_VolumeProvisioning, NoErr)

isIBMPIVolumeGroupRefreshFunc(o) ==
    IF o.err # "none" THEN Refreshed("nil", "", GetError(o))
    ELSE IF o.status = "available"
         THEN Refreshed("obj", Attr_VolumeProvisioningDone, NoErr)
         ELSE Refreshed("obj", Attr_VolumeProvisioning, NoErr)

isIBMPIVolumeGroupDeleteRefreshFunc(o) ==
    IF o.err = "NotFound" THEN Refreshed("typednil", "deleted", NoErr)
    ELSE IF o.err # "none" THEN Refreshed("nil", "", GetError(o))
    ELSE Refreshed("obj", "deleting", NoErr)

isPIInstanceSnapshotRefreshFunc(o) ==
    IF o.err # "none" THEN Refreshed("nil", "", GetError(o))
    ELSE IF o.status = "available" /\ o.pct = 100
         THEN Refreshed("obj", "available", NoErr)
         ELSE Refreshed("obj", "in_progress", NoErr)

isPIInstanceSnapshotDeleteRefreshFunc(o) ==
    IF o.err # "none" THEN Refreshed("typednil", State_NotFound, NoErr)
    ELSE Refreshed("obj", State_NotFound, NoErr)

\* A variant that does not look for the VLAN id.
isIBMPINetworkRefreshFunc_NoVlanCheck(o) ==
    IF o.err # "none" THEN Refreshed("nil", "", GetError(o))
    ELSE Refreshed("obj", State_Available, NoErr)

isIBMPINetworkRefreshFunc(o) ==
    IF o.err # "none" THEN Refreshed("nil", "", GetError(o))
    ELSE IF o.vlan THEN Refreshed("obj", State_Available, NoErr)
    ELSE Refreshed("obj", State_Build, NoErr)

isIBMPIImageRefreshFunc(o) ==
    IF o.err # "none" THEN Refreshed("nil", "", GetError(o))
    ELSE IF o.status = Status_Active
         THEN Refreshed("obj", Status_Active, NoErr)
         ELSE Refreshed("obj", Status_Queued, NoErr)

\* The port of a network: its status, and in shape whether the instance it
\* is attached to is the requested one ("ok") or another one ("other").
isIBMPINetworkportRefreshFunc(o) ==
    IF o.err # "none" THEN Refreshed("nil", "", GetError(o))
    ELSE IF o.status = "DOWN" THEN Refreshed("obj", "DOWN", NoErr)
    ELSE Refreshed("obj", PINetworkProvisioning, NoErr)

isIBMPINetworkPortAttachRefreshFunc(o) ==
    IF o.err # "none" THEN Refreshed("nil", "", GetError(o))
    ELSE IF o.status = "ACTIVE" /\ o.shape = "ok" THEN Refreshed("obj", "ACTIVE", NoErr)
    ELSE Refreshed("obj", PINetworkProvisioning, NoErr)

\* The rules of a network security group, in shape: "nil" for no list,
\* "empty" for an empty one, "has" for a list that holds the rule and
\* "others" for a list of other rules only.
isIBMPINetworkSecurityGroupRuleAddRefreshFunc(o) ==
    IF o.err # "none" THEN Refreshed("nil", "", GetError(o))
    ELSE IF o.shape = "has" THEN Refreshed("obj", State_Available, NoErr)
    ELSE Refreshed("obj", State_Pending, NoErr)

isIBMPINetworkSecurityGroupRuleRemoveRefreshFunc(o) ==
    IF o.err # "none" THEN Refreshed("nil", "", GetError(o))
    ELSE IF o.shape = "nil" THEN Refreshed("obj", State_Pending, NoErr)
    ELSE IF o.shape = "has" THEN Refreshed("obj", State_Pending, NoErr)
    ELSE Refreshed("obj", State_Removed, NoErr)

isPIInstanceDeleteRefreshFunc(o) ==
    IF o.err # "none" THEN Refreshed("typednil", State_NotFound, NoErr)
    ELSE Refreshed("obj", State_Delete, NoErr)

\* The error of the instance refresh functions on status ERROR.
LparFault(o) ==
    IF o.fault # "" THEN Err("failed to create the lpar", o.fault)
    ELSE Err("failed to create the lpar", "")

\* A variant that does not look at the health status.
isPIInstanceRefreshFunc_AnyHealth(o, instanceReadyStatus) ==
    IF o.err # "none" THEN Refreshed("nil", "", GetError(o))
    ELSE IF o.status = State_Available
         THEN Refreshed("obj", State_Available, NoErr)
    ELSE IF o.status = "ERROR" THEN Refreshed("obj", o.status, LparFault(o))
    ELSE Refreshed("obj", State_Building, NoErr)

\* A variant that reports status ERROR without an error.
isPIInstanceRefreshFunc_ErrorAsState(o, instanceReadyStatus) ==
    IF o.err # "none" THEN Refreshed("nil", "", GetError(o))
    ELSE IF o.status = State_Available
            /\ (o.health = instanceReadyStatus \/ o.health = PVMInstanceHealthOk)
         THEN Refreshed("obj", State_Available, NoErr)
    ELSE IF o.status = "ERROR" THEN Refreshed("obj", o.status, NoErr)
    ELSE Refreshed("obj", State_Building, NoErr)

isPIInstanceRefreshFunc(o, instanceReadyStatus) ==
    IF o.err # "none" THEN Refreshed("nil", "", GetError(o))
    ELSE IF o.status = State_Available
            /\ (o.health = instanceReadyStatus \/ o.health = PVMInstanceHealthOk)
         THEN Refreshed("obj", State_Available, NoErr)
    ELSE IF o.status = "ERROR" THEN Refreshed("obj", o.status, LparFault(o))
    ELSE Refreshed("obj", State_Building, NoErr)

\* A variant of the shutoff refresh that does not look at the health status.
isPIInstanceShutoffRefreshFunc_AnyHealth(o, instanceReadyStatus) ==
    IF o.err # "none" THEN Refreshed("nil", "", GetError(o))
    ELSE IF o.status = StatusShutoff
         THEN Refreshed("obj", StatusShutoff, NoErr)
    ELSE IF o.status = StatusError THEN Refreshed("obj", o.status, LparFault(o))
    ELSE Refreshed("obj", State_Building, NoErr)

isPIInstanceShutoffRefreshFunc(o, instanceReadyStatus) ==
    IF o.err # "none" THEN Refreshed("nil", "", GetError(o))
    ELSE IF o.status = StatusShutoff
            /\ (o.health = instanceReadyStatus \/ o.health = PVMInstanceHealthOk)
         THEN Refreshed("obj", StatusShutoff, NoErr)
    ELSE IF o.status = StatusError THEN Refreshed("obj", o.status, LparFault(o))
    ELSE Refreshed("obj", State_Building, NoErr)

isIBMPIWorkspaceRefreshFunc(o) ==
    IF o.err # "none" THEN Refreshed("nil", "", GetError(o))
    ELSE IF o.status = "failed"
         THEN Refreshed("obj", o.status,
                        Err("The resource instance failed to provisioned", ""))
    ELSE Refreshed("obj", o.status, NoErr)

\* A variant of the job refresh closure that reports a failed job without
\* an error.
waitForIBMPIJobCompletedRefresh_FailedAsState(o) ==
    IF o.err # "none" THEN Refreshed("nil", "", Err("GetJobOperationFailed", o.err))
    ELSE IF o.shape = "nil"
         THEN Refreshed("nil", "", Err("failed to get job status", ""))
    ELSE IF o.status = Status_Failed
         THEN Refreshed("obj", Status_Failed, NoErr)
    ELSE Refreshed("obj", o.status, NoErr)

\* A variant of the job refresh closure that polls again on a job without
\* a status.
waitForIBMPIJobCompletedRefresh_NilAsRunning(o) ==
    IF o.err # "none" THEN Refreshed("nil", "", Err("GetJobOperationFailed", o.err))
    ELSE IF o.shape = "nil"
         THEN Refreshed("obj", Status_Running, NoErr)
    ELSE IF o.status = Status_Failed
         THEN Refreshed("nil", Status_Failed, Err("job status failed", o.fault))
    ELSE Refreshed("obj", o.status, NoErr)

\* The refresh closure of waitForIBMPIJobCompleted; fault is the job's
\* status message.
waitForIBMPIJobCompletedRefresh(o) ==
    IF o.err # "none" THEN Refreshed("nil", "", Err("GetJobOperationFailed", o.err))
    ELSE IF o.shape = "nil"
         THEN Refreshed("nil", "", Err("failed to get job status", ""))
    ELSE IF o.status = Status_Failed
         THEN Refreshed("nil", Status_Failed, Err("job status failed", o.fault))
    ELSE Refreshed("obj", o.status, NoErr)

\* ------------------------------------------------------------------------
\* The waits: Pending and Target of each StateChangeConf

isWaitForIBMPIVolumeAvailable ==
    [Pending |-> {"retry", PIVolumeProvisioning}, Target |-> {PIVolumeProvisioningDone}]
isWaitForIBMPIVolumeDeleted ==
    [Pending |-> {"deleting", PIVolumeProvisioning}, Target |-> {"deleted"}]
isWaitForIBMPIVolumeGroupAvailable ==
    [Pending |-> {"retry", Attr_VolumeProvisioning}, Target |-> {Attr_VolumeProvisioningDone}]
isWaitForIBMPIVolumeGroupDeleted ==
    [Pending |-> {"deleting", "updating"}, Target |-> {"deleted"}]
isWaitForPIInstanceSnapshotAvailable ==
    [Pending |-> {"in_progress", "BUILD"}, Target |-> {"available", "ACTIVE"}]
isWaitForPIInstanceSnapshotDeleted ==
    [Pending |-> {"retry", State_Deleting}, Target |-> {"Not Found"}]
isWaitForIBMPINetworkAvailable ==
    [Pending |-> {State_Retry, State_Build}, Target |-> {State_Available}]
isWaitForIBMPINetworkportAvailable ==
    [Pending |-> {"retry", PINetworkProvisioning}, Target |-> {"DOWN"}]
isWaitForIBMPINetworkPortAttachAvailable ==
    [Pending |-> {"retry", PINetworkProvisioning}, Target |-> {"ACTIVE"}]
isWaitForIBMPINetworkSecurityGroupRuleAdd ==
    [Pending |-> {State_Pending}, Target |-> {State_Available}]
isWaitForIBMPINetworkSecurityGroupRuleRemove ==
    [Pending |-> {State_Pending}, Target |-> {State_Removed}]
isWaitForIBMPIImageAvailable ==
    [Pending |-> {Status_Retry, Status_Queued}, Target |-> {Status_Active}]
isWaitForPIInstanceDeleted ==
    [Pending |-> {"retry", State_Delete}, Target |-> {State_Delete}]
isWaitForPIInstanceAvailable ==
    [Pending |-> {"PENDING", State_Building, PVMInstanceHealthWarning},
     Target |-> {State_Available, PVMInstanceHealthOk, "ERROR", "", "SHUTOFF"}]
isWaitForPIInstanceShutoff ==
    [Pending |-> {StatusPending, State_Building, PVMInstanceHealthWarning},
     Target |-> {PVMInstanceHealthOk, StatusError, "", StatusShutoff}]
\* A variant of the workspace wait without a Pending set, which makes
\* WaitForStateContext take every state outside Target for a pending one.
waitForResourceInstanceCreate_NoPending ==
    [Pending |-> {}, Target |-> {"active"}]
waitForResourceInstanceCreate ==
    [Pending |-> {"provisioning", "in progress", "inactive"}, Target |-> {"active"}]
waitForIBMPIJobCompleted ==
    [Pending |-> {Status_Queued, Status_ReadyForProcessing, Status_InProgress,
                  Status_Running, Status_Waiting},
     Target |-> {Status_Completed, Status_Failed}]

isWaitForPIInstanceSoftwareLicenses ==
    [Pending |-> {"notdone"}, Target |-> {"done"}]
isWaitForPIInstanceStopped ==
    [Pending |-> {"STOPPING", "RESIZE", "VERIFY_RESIZE", PVMInstanceHealthWarning},
     Target |-> {"OK", "SHUTOFF"}]
isWaitforPIInstanceUpdate ==
    [Pending |-> {"RESIZE", "VERIFY_RESIZE"},
     Target |-> {"ACTIVE", "SHUTOFF", PVMInstanceHealthOk}]

\* shape "stale": some software license of the payload still differs from
\* the requested ones.
isPIInstanceSoftwareLicensesRefreshFunc(o) ==
    IF o.err # "none" THEN Refreshed("nil", "", GetError(o))
    ELSE IF o.shape # "ok" THEN Refreshed("obj", "notdone", NoErr)
    ELSE Refreshed("obj", "done", NoErr)

isPIInstanceRefreshFuncOff(o) ==
    IF o.err # "none" THEN Refreshed("nil", "", GetError(o))
    ELSE IF o.status = "SHUTOFF" /\ o.health = PVMInstanceHealthOk
         THEN Refreshed("obj", "SHUTOFF", NoErr)
    ELSE Refreshed("obj", "STOPPING", NoErr)

isPIInstanceShutAfterResourceChange(o) ==
    IF o.err # "none" THEN Refreshed("nil", "", GetError(o))
    ELSE IF o.status = "SHUTOFF" /\ o.health = PVMInstanceHealthOk
         THEN Refreshed("obj", "SHUTOFF", NoErr)
    ELSE Refreshed("obj", "RESIZE", NoErr)

\* ------------------------------------------------------------------------
\* Dispatch on the wait function's name

WaitKinds ==
    {"isWaitForIBMPIVolumeAvailable", "isWaitForIBMPIVolumeDeleted",
     "isWaitForIBMPIVolumeGroupAvailable", "isWaitForIBMPIVolumeGroupDeleted",
     "isWaitForPIInstanceSnapshotAvailable", "isWaitForPIInstanceSnapshotDeleted",
     "isWaitForIBMPINetworkAvailable", "isWaitForIBMPIImageAvailable",
     "isWaitForPIInstanceDeleted", "isWaitForPIInstanceAvailable",
     "isWaitForPIInstanceShutoff", "waitForResourceInstanceCreate",
     "waitForIBMPIJobCompleted", "isWaitForPIInstanceSoftwareLicenses",
     "isWaitForPIInstanceStopped", "isWaitforPIInstanceUpdate",
     "isWaitForIBMPINetworkportAvailable", "isWaitForIBMPINetworkPortAttachAvailable",
     "isWaitForIBMPINetworkSecurityGroupRuleAdd",
     "isWaitForIBMPINetworkSecurityGroupRuleRemove"}

StateChangeConf(w) ==
    CASE w = "isWaitForIBMPIVolumeAvailable" -> isWaitForIBMPIVolumeAvailable
      [] w = "isWaitForIBMPIVolumeDeleted" -> isWaitForIBMPIVolumeDeleted
      [] w = "isWaitForIBMPIVolumeGroupAvailable" -> isWaitForIBMPIVolumeGroupAvailable
      [] w = "isWaitForIBMPIVolumeGroupDeleted" -> isWaitForIBMPIVolumeGroupDeleted
      [] w = "isWaitForPIInstanceSnapshotAvailable" -> isWaitForPIInstanceSnapshotAvailable
      [] w = "isWaitForPIInstanceSnapshotDeleted" -> isWaitForPIInstanceSnapshotDeleted
      [] w = "isWaitForIBMPINetworkAvailable" -> isWaitForIBMPINetworkAvailable
      [] w = "isWaitForIBMPIImageAvailable" -> isWaitForIBMPIImageAvailable
      [] w = "isWaitForPIInstanceDeleted" -> isWaitForPIInstanceDeleted
      [] w = "isWaitForPIInstanceAvailable" -> isWaitForPIInstanceAvailable
      [] w = "isWaitForPIInstanceShutoff" -> isWaitForPIInstanceShutoff
      [] w = "waitForResourceInstanceCreate" -> waitForResourceInstanceCreate
      [] w = "waitForIBMPIJobCompleted" -> waitForIBMPIJobCompleted
      [] w = "isWaitForPIInstanceSoftwareLicenses" -> isWaitForPIInstanceSoftwareLicenses
      [] w = "isWaitForPIInstanceStopped" -> isWaitForPIInstanceStopped
      [] w = "isWaitforPIInstanceUpdate" -> isWaitforPIInstanceUpdate
      [] w = "isWaitForIBMPINetworkportAvailable" -> isWaitForIBMPINetworkportAvailable
      [] w = "isWaitForIBMPINetworkPortAttachAvailable" ->
            isWaitForIBMPINetworkPortAttachAvailable
      [] w = "isWaitForIBMPINetworkSecurityGroupRuleAdd" ->
            isWaitForIBMPINetworkSecurityGroupRuleAdd
      [] w = "isWaitForIBMPINetworkSecurityGroupRuleRemove" ->
            isWaitForIBMPINetworkSecurityGroupRuleRemove

\* conf.Refresh(): the refresh function the wait was built with; ready is
\* the instanceReadyStatus argument of the instance waits.
Refresh(w, ready, o) ==
    CASE w = "isWaitForIBMPIVolumeAvailable" -> isIBMPIVolumeRefreshFunc(o)
      [] w = "isWaitForIBMPIVolumeDeleted" -> isIBMPIVolumeDeleteRefreshFunc(o)
      [] w = "isWaitForIBMPIVolumeGroupAvailable" -> isIBMPIVolumeGroupRefreshFunc(o)
      [] w = "isWaitForIBMPIVolumeGroupDeleted" -> isIBMPIVolumeGroupDeleteRefreshFunc(o)
      [] w = "isWaitForPIInstanceSnapshotAvailable" -> isPIInstanceSnapshotRefreshFunc(o)
      [] w = "isWaitForPIInstanceSnapshotDeleted" -> isPIInstanceSnapshotDeleteRefreshFunc(o)
      [] w = "isWaitForIBMPINetworkAvailable" -> isIBMPINetworkRefreshFunc(o)
      [] w = "isWaitForIBMPIImageAvailable" -> isIBMPIImageRefreshFunc(o)
      [] w = "isWaitForPIInstanceDeleted" -> isPIInstanceDeleteRefreshFunc(o)
      [] w = "isWaitForPIInstanceAvailable" -> isPIInstanceRefreshFunc(o, ready)
      [] w = "isWaitForPIInstanceShutoff" -> isPIInstanceShutoffRefreshFunc(o, ready)
      [] w = "waitForResourceInstanceCreate" -> isIBMPIWorkspaceRefreshFunc(o)
      [] w = "waitForIBMPIJobCompleted" -> waitForIBMPIJobCompletedRefresh(o)
      [] w = "isWaitForPIInstanceSoftwareLicenses" -> isPIInstanceSoftwareLicensesRefreshFunc(o)
      [] w = "isWaitForPIInstanceStopped" -> isPIInstanceRefreshFuncOff(o)
      [] w = "isWaitforPIInstanceUpdate" -> isPIInstanceShutAfterResourceChange(o)
      [] w = "isWaitForIBMPINetworkportAvailable" -> isIBMPINetworkportRefreshFunc(o)
      [] w = "isWaitForIBMPINetworkPortAttachAvailable" ->
            isIBMPINetworkPortAttachRefreshFunc(o)
      [] w = "isWaitForIBMPINetworkSecurityGroupRuleAdd" ->
            isIBMPINetworkSecurityGroupRuleAddRefreshFunc(o)
      [] w = "isWaitForIBMPINetworkSecurityGroupRuleRemove" ->
            isIBMPINetworkSecurityGroupRuleRemoveRefreshFunc(o)

\* ------------------------------------------------------------------------
\* The remote side: what a Get may answer during each wait

InstancePayloads ==
    {Obs("none", State_Available),
     [Obs("none", State_Available) EXCEPT !.health = "WARNING"],
     Obs("none", "BUILD"),
     Obs("none", "RESIZE"),
     Obs("none", "VERIFY_RESIZE"),
     Obs("none", "ERROR"),
     [Obs("none", "ERROR") EXCEPT !.fault = "no capacity"],
     Obs("none", "SHUTOFF"),
     [Obs("none", "SHUTOFF") EXCEPT !.health = "WARNING"]}

JobPayloads ==
    {Obs("none", Status_Running), Obs("none", Status_Completed),
     [Obs("none", Status_Failed) EXCEPT !.fault = "quota exceeded"],
     Obs("none", "cancelled"),
     [Obs("none", "") EXCEPT !.shape = "nil"]}

Payloads(w) ==
    CASE w \in {"isWaitForIBMPIVolumeAvailable"} ->
            {Obs("none", "creating"), Obs("none", "available"), Obs("none", "in-use")}
      [] w \in {"isWaitForIBMPIVolumeDeleted", "isWaitForIBMPIVolumeGroupDeleted"} ->
            {Obs("none", "deleting")}
      [] w = "isWaitForIBMPIVolumeGroupAvailable" ->
            {Obs("none", "updating"), Obs("none", "available")}
      [] w = "isWaitForPIInstanceSnapshotAvailable" ->
            {Obs("none", "available"),
             [Obs("none", "available") EXCEPT !.pct = 50],
             [Obs("none", "creating") EXCEPT !.pct = 50]}
      [] w = "isWaitForPIInstanceSnapshotDeleted" -> {Obs("none", "available")}
      [] w = "isWaitForIBMPINetworkAvailable" ->
            {Obs("none", ""), [Obs("none", "") EXCEPT !.vlan = TRUE]}
      [] w = "isWaitForIBMPIImageAvailable" ->
            {Obs("none", Status_Queued), Obs("none", Status_Active)}
      [] w = "waitForResourceInstanceCreate" ->
            {Obs("none", "provisioning"), Obs("none", "active"),
             Obs("none", "failed"), Obs("none", "removed")}
      [] w = "waitForIBMPIJobCompleted" -> JobPayloads
      [] w \in {"isWaitForIBMPINetworkportAvailable",
                "isWaitForIBMPINetworkPortAttachAvailable"} ->
            {Obs("none", "BUILD"), Obs("none", "DOWN"), Obs("none", "ACTIVE"),
             [Obs("none", "ACTIVE") EXCEPT !.shape = "other"]}
      [] w = "isWaitForPIInstanceSoftwareLicenses" ->
            {Obs("none", "ACTIVE"), [Obs("none", "ACTIVE") EXCEPT !.shape = "stale"]}
      [] w \in {"isWaitForIBMPINetworkSecurityGroupRuleAdd",
                "isWaitForIBMPINetworkSecurityGroupRuleRemove"} ->
            {[Obs("none", "") EXCEPT !.shape = sh] :
                sh \in {"nil", "empty", "has", "others"}}
      [] OTHER -> InstancePayloads

Observations(w) == Payloads(w) \cup GetErrors

\* The progress of an acknowledged mutation between two fetches, and what a
\* payload shows of it: the transitional states exactly while it is applied.
MutationNext(m) ==
    CASE m = "acked" -> {"acked", "applying", "applied"}
      [] m = "applying" -> {"applying", "applied"}
      [] OTHER -> {m}
Visible(m, o) ==
    o.err = "none" => ((o.status \in {"RESIZE", "VERIFY_RESIZE"}) <=> (m = "applying"))

\* ------------------------------------------------------------------------
\* WaitForStateContext

\* conf.NotFoundChecks, when the wait leaves it zero.
NotFoundChecks == 20

EmptyResult == [res |-> "nil", state |-> "", err |-> NoErr, done |-> FALSE]
NoTimeout == [fired |-> FALSE, fetches |-> 0, answered |-> 0, clean |-> TRUE]
NotReturned == [returned |-> FALSE, res |-> "nil", err |-> NoErr]
Returned(res, err) == [returned |-> TRUE, res |-> res, err |-> err]

\* One pass of the refresh loop over the triple r of conf.Refresh(), with
\* nft the not-found ticks so far: the result to report, whether the loop
\* ends with it, and the new tick count.
Classify(conf, r, nft) ==
    LET base == [res |-> r.res, state |-> r.state, err |-> r.err, done |-> FALSE]
    IN  IF r.err # NoErr
        THEN [final |-> TRUE, result |-> base, nft |-> nft]
        ELSE IF r.res = "nil" /\ conf.Target = {}
        THEN [final |-> TRUE, result |-> [base EXCEPT !.done = TRUE], nft |-> nft]
        ELSE IF r.res = "nil"
        THEN IF nft + 1 > NotFoundChecks
             THEN [final |-> TRUE,
                   result |-> [base EXCEPT !.err = Err("NotFoundError", "")],
                   nft |-> nft + 1]
             ELSE [final |-> FALSE, result |-> base, nft |-> nft + 1]
        ELSE IF r.state \in conf.Target
        THEN [final |-> TRUE, result |-> [base EXCEPT !.done = TRUE], nft |-> 0]
        ELSE IF r.state \in conf.Pending
        THEN [final |-> FALSE, result |-> base, nft |-> 0]
        ELSE IF conf.Pending # {}
        THEN [final |-> TRUE,
              result |-> [base EXCEPT !.err = Err("UnexpectedStateError", r.state)],
              nft |-> 0]
        ELSE [final |-> FALSE, result |-> base, nft |-> 0]

\* The error of a wait that ran out of time: it wraps the last error seen.
TimeoutError(last) == Err("TimeoutError", last.err.msg)
CtxErr == Err("context canceled", "")

\* How the caller reads the wait's return value.
Outcome(ret) ==
    IF ~ret.returned THEN "running"
    ELSE IF ret.err = NoErr THEN "Converged"
    ELSE IF ret.err.kind = "TimeoutError" THEN "TimedOut"
    ELSE IF ret.err = CtxErr THEN "Cancelled"
    ELSE "Failed"

VARIABLES
    handler,      \* the handler that runs, and its input
    input,
    hpc,          \* index of the handler's next step in its program
    dId,          \* d.Id(): "unset", "set" or "" (cleared)
    hret,         \* "running", "ok" (nil diagnostics), "err" or "panic"
    calls,        \* the remote calls the handler has issued, in order
    failedWaits,  \* the number of the handler's waits that returned an error
    wkind,        \* the wait that runs or ran last, "none" before the first
    ready,        \* its instanceReadyStatus argument
    gpc,          \* the refresh goroutine: delay, send, sleep, refresh, sendfinal, exit
    mpc,          \* the caller: idle, select, grace, returned
    resCh,        \* the result channel (capacity 1) and whether it is closed
    chClosed,
    cancelCh,     \* whether the cancel channel is closed
    result,       \* the goroutine's last result
    notfoundTick,
    lastResult,   \* the caller's last result
    wret,         \* what the wait returned
    fetches,      \* fetches issued / answered / classified as pending in this wait
    answered,
    pend,
    lastObs,      \* the last answer of the remote side, and its refresh triple
    lastRef,
    tmo,          \* whether the wait's timeout fired, and the fetches issued and
                  \* answered by then, and whether all answers were pending ones
    ctxDone,      \* the caller's context is done
    rpc,          \* retryCloudConnectionsVPC: idle, loop (at the loop test), slept
    count,        \* its loop counter
    errMsg,       \* the err of the handler's last remote call, "nil" for no
                  \* error; errMsg inside retryCloudConnectionsVPC
    slept,        \* the number of time.Sleep(vpcRetryDuration) performed
    errs,         \* the answers to the attempts of the retried call, in order
    mutation,     \* the mutating Update of the instance on the remote side:
                  \* "none", "acked" (acknowledged, effect not yet visible),
                  \* "applying" (status RESIZE / VERIFY_RESIZE) or "applied"
    segs,         \* the values a create handler builds its ID from
    builder,      \* the handler that built the ID, "none" before
    token,        \* d.Id(), as a string of characters
    dec,          \* what a handler made of d.Id()
    ipc           \* the life of an ID: off, new, stored, decoded

retryvars == <<rpc, count, errMsg, slept, errs>>
hvars == <<handler, input, hpc, dId, hret, calls, failedWaits, retryvars>>
rvars == <<ctxDone, mutation>>
wvars == <<wkind, ready, gpc, mpc, resCh, chClosed, cancelCh, result, notfoundTick,
           lastResult, wret, fetches, answered, pend, lastObs, lastRef, tmo>>
idvars == <<segs, builder, token, dec, ipc>>
vars == <<hvars, wvars, rvars, idvars>>

\* The goroutine's first select: the delay, or the cancel channel.
GDelay ==
    /\ gpc = "delay"
    /\ \/ gpc' = "send" /\ ~cancelCh /\ UNCHANGED chClosed
       \/ cancelCh /\ gpc' = "exit" /\ chClosed' = TRUE
    /\ UNCHANGED <<idvars, hvars, rvars, wkind, ready, mpc, resCh, cancelCh, result,
                   notfoundTick, lastResult, wret, fetches, answered, pend,
                   lastObs, lastRef, tmo>>

\* resCh <- result at the top of the loop ("store the last result").
GSend ==
    /\ gpc = "send"
    /\ Len(resCh) = 0
    /\ resCh' = <<result>>
    /\ gpc' = "sleep"
    /\ UNCHANGED <<idvars, hvars, rvars, wkind, ready, mpc, chClosed, cancelCh, result,
                   notfoundTick, lastResult, wret, fetches, answered, pend,
                   lastObs, lastRef, tmo>>

\* A variant of the loop's select that does not watch the cancel channel.
GSleep_IgnoreCancel ==
    /\ gpc = "sleep"
    /\ fetches < MaxFetches
    /\ gpc' = "refresh"
    /\ fetches' = fetches + 1
    /\ UNCHANGED <<idvars, hvars, rvars, wkind, ready, mpc, resCh, chClosed, cancelCh, result,
                   notfoundTick, lastResult, wret, answered, pend,
                   lastObs, lastRef, tmo>>

\* The loop's select: the cancel channel, or the timer and then the call of
\* conf.Refresh(), which blocks until the remote side answers.
GSleep ==
    /\ gpc = "sleep"
    /\ \/ /\ cancelCh
          /\ gpc' = "exit" /\ chClosed' = TRUE
          /\ UNCHANGED fetches
       \/ /\ ~cancelCh
          /\ fetches < MaxFetches
          /\ gpc' = "refresh"
          /\ fetches' = fetches + 1
          /\ UNCHANGED chClosed
    /\ UNCHANGED <<idvars, hvars, rvars, wkind, ready, mpc, resCh, cancelCh, result,
                   notfoundTick, lastResult, wret, answered, pend,
                   lastObs, lastRef, tmo>>

\* conf.Refresh() returns and the loop classifies its triple.
GRefresh ==
    /\ gpc = "refresh"
    /\ \E o \in Observations(wkind), m \in MutationNext(mutation) :
         LET r == Refresh(wkind, ready, o)
             c == Classify(StateChangeConf(wkind), r, notfoundTick)
         IN  /\ Visible(m, o)
             /\ mutation' = m
             /\ lastObs' = o
             /\ lastRef' = r
             /\ result' = c.result
             /\ notfoundTick' = c.nft
             /\ answered' = answered + 1
             /\ pend' = IF c.final THEN pend ELSE pend + 1
             /\ gpc' = IF c.final THEN "sendfinal" ELSE "send"
    /\ UNCHANGED <<idvars, hvars, ctxDone, wkind, ready, mpc, resCh, chClosed, cancelCh,
                   lastResult, wret, fetches, tmo>>

\* resCh <- result; return (and the deferred close of resCh).
GSendFinal ==
    /\ gpc = "sendfinal"
    /\ Len(resCh) = 0
    /\ resCh' = <<result>>
    /\ gpc' = "exit"
    /\ chClosed' = TRUE
    /\ UNCHANGED <<idvars, hvars, rvars, wkind, ready, mpc, cancelCh, result,
                   notfoundTick, lastResult, wret, fetches, answered, pend,
                   lastObs, lastRef, tmo>>

\* case r, ok := <-resCh of the caller's select.
MRecv ==
    /\ mpc = "select"
    /\ \/ /\ Len(resCh) > 0
          /\ resCh' = Tail(resCh)
          /\ IF Head(resCh).done
             THEN /\ wret' = Returned(Head(resCh).res, Head(resCh).err)
                  /\ mpc' = "returned"
                  /\ UNCHANGED lastResult
             ELSE /\ lastResult' = Head(resCh)
                  /\ UNCHANGED <<wret, mpc>>
       \/ /\ Len(resCh) = 0 /\ chClosed
          /\ wret' = Returned(lastResult.res, lastResult.err)
          /\ mpc' = "returned"
          /\ UNCHANGED <<resCh, lastResult>>
    /\ UNCHANGED <<idvars, hvars, rvars, wkind, ready, gpc, chClosed, cancelCh, result,
                   notfoundTick, fetches, answered, pend, lastObs, lastRef, tmo>>

\* case <-ctx.Done() of the caller's select.
MCtxDone ==
    /\ mpc = "select"
    /\ ctxDone
    /\ cancelCh' = TRUE
    /\ wret' = Returned("nil", CtxErr)
    /\ mpc' = "returned"
    /\ UNCHANGED <<idvars, hvars, rvars, wkind, ready, gpc, resCh, chClosed, result,
                   notfoundTick, lastResult, fetches, answered, pend, lastObs,
                   lastRef, tmo>>

\* A variant of the timeout that runs only once the refresh loop has ended.
MTimeout_AfterLoopEnd ==
    /\ mpc = "select"
    /\ gpc = "exit"
    /\ cancelCh' = TRUE
    /\ tmo' = [fired |-> TRUE, fetches |-> fetches, answered |-> answered,
               clean |-> (answered = pend)]
    /\ mpc' = "grace"
    /\ UNCHANGED <<idvars, hvars, rvars, wkind, ready, gpc, resCh, chClosed, result,
                   notfoundTick, lastResult, wret, fetches, answered, pend,
                   lastObs, lastRef>>

\* case <-timeout of the caller's select: cancel the goroutine and start
\* the refresh grace period.
MTimeout ==
    /\ mpc = "select"
    /\ cancelCh' = TRUE
    /\ tmo' = [fired |-> TRUE, fetches |-> fetches, answered |-> answered,
               clean |-> (answered = pend)]
    /\ mpc' = "grace"
    /\ UNCHANGED <<idvars, hvars, rvars, wkind, ready, gpc, resCh, chClosed, result,
                   notfoundTick, lastResult, wret, fetches, answered, pend,
                   lastObs, lastRef>>

\* The select of the grace period: a last result, the closed channel, the
\* context or the grace timer.
MGrace ==
    /\ mpc = "grace"
    /\ \/ /\ Len(resCh) > 0
          /\ resCh' = Tail(resCh)
          /\ IF Head(resCh).done
             THEN /\ wret' = Returned(Head(resCh).res, Head(resCh).err)
                  /\ mpc' = "returned"
                  /\ UNCHANGED lastResult
             ELSE /\ lastResult' = Head(resCh)
                  /\ UNCHANGED <<wret, mpc>>
       \/ /\ \/ Len(resCh) = 0 /\ chClosed
             \/ ctxDone
             \/ gpc = "refresh"
          /\ wret' = Returned("nil", TimeoutError(lastResult))
          /\ mpc' = "returned"
          /\ UNCHANGED <<resCh, lastResult>>
    /\ UNCHANGED <<idvars, hvars, rvars, wkind, ready, gpc, chClosed, cancelCh, result,
                   notfoundTick, fetches, answered, pend, lastObs, lastRef, tmo>>

\* The caller's context is cancelled or reaches its deadline.
CtxCancel ==
    /\ ~ctxDone
    /\ hret = "running"
    /\ ctxDone' = TRUE
    /\ UNCHANGED <<idvars, hvars, wvars, mutation>>

\* ------------------------------------------------------------------------
\* Handlers: each is the sequence of its remote calls, waits and ID updates

\* A remote call; onErr says what the handler does when it fails.
Call(name) == [op |-> "call", name |-> name, arg |-> "", tmo |-> "", onErr |-> "return"]
CallOr(name, onErr) == [op |-> "call", name |-> name, arg |-> "", tmo |-> "", onErr |-> onErr]
\* A wait, with its instanceReadyStatus and the operation whose timeout it gets.
Wait(w, rdy, t) == [op |-> "wait", name |-> w, arg |-> rdy, tmo |-> t, onErr |-> "return"]
WaitOr(w, rdy, t, onErr) == [op |-> "wait", name |-> w, arg |-> rdy, tmo |-> t, onErr |-> onErr]
SetId(v) == [op |-> "setid", name |-> v, arg |-> "", tmo |-> "", onErr |-> ""]
Fail(why) == [op |-> "fail", name |-> why, arg |-> "", tmo |-> "", onErr |-> ""]
Ret == [op |-> "return", name |-> "", arg |-> "", tmo |-> "", onErr |-> ""]
\* return resource...Read(ctx, d, meta)
ReadAndReturn == <<Call("Read"), Ret>>

\* The input of a handler: the changed attributes (d.HasChange), the
\* recorded status and health of the instance, which of the requested memory
\* and processors exceed max_memory / max_processors, pi_health_status, the number of
\* instances created, the deployment type, whether volume ids are given,
\* whether the delete call returned a job reference, whether the old and the
\* new placement group are non-empty, and pi_ibmi_rds_users.
DefaultInput == [ch |-> {}, status |-> "ACTIVE", health |-> "OK", over |-> {},
                 ready |-> "", n |-> 1, noStorage |-> FALSE, volids |-> FALSE,
                 jobRef |-> TRUE, pgOld |-> TRUE, pgNew |-> TRUE, rdsUsers |-> 0]

\* A variant of the volume create that sets the ID after its wait.
resourceIBMPIVolumeCreate_IdAfterWait(in) ==
    <<Call("CreateVolume"), Wait("isWaitForIBMPIVolumeAvailable", "", "create"),
      SetId("set")>> \o ReadAndReturn

resourceIBMPIVolumeCreate(in) ==
    <<Call("CreateVolume"), SetId("set"),
      Wait("isWaitForIBMPIVolumeAvailable", "", "create")>> \o ReadAndReturn

resourceIBMPIVolumeUpdate(in) ==
    <<Call("UpdateVolume"), Wait("isWaitForIBMPIVolumeAvailable", "", "update")>>
    \o (IF in.ch # {}
        THEN <<Call("VolumeAction"), Wait("isWaitForIBMPIVolumeAvailable", "", "update")>>
        ELSE <<>>)
    \o ReadAndReturn

resourceIBMPIVolumeDelete(in) ==
    <<Call("DeleteVolume"), Wait("isWaitForIBMPIVolumeDeleted", "", "delete"),
      SetId(""), Ret>>

resourceIBMPIVolumeGroupCreate(in) ==
    <<Call("CreateVolumeGroup"), SetId("set"),
      Wait("isWaitForIBMPIVolumeGroupAvailable", "", "create")>> \o ReadAndReturn

resourceIBMPIVolumeGroupUpdate(in) ==
    (IF in.ch # {}
     THEN <<Call("UpdateVolumeGroup"),
            Wait("isWaitForIBMPIVolumeGroupAvailable", "", "update")>>
     ELSE <<>>)
    \o ReadAndReturn

resourceIBMPIVolumeGroupDelete(in) ==
    (IF in.volids
     THEN <<Call("UpdateVolumeGroup"),
            Wait("isWaitForIBMPIVolumeGroupAvailable", "", "update")>>
     ELSE <<>>)
    \o <<Call("DeleteVolumeGroup"),
         Wait("isWaitForIBMPIVolumeGroupDeleted", "", "delete"), SetId(""), Ret>>

resourceIBMPISnapshotCreate(in) ==
    <<Call("CreatePvmSnapShot"), SetId("set"),
      Wait("isWaitForPIInstanceSnapshotAvailable", "", "create")>> \o ReadAndReturn

resourceIBMPISnapshotUpdate(in) ==
    (IF in.ch # {}
     THEN <<Call("SnapshotUpdate"),
            Wait("isWaitForPIInstanceSnapshotAvailable", "", "create")>>
     ELSE <<>>)
    \o ReadAndReturn

resourceIBMPISnapshotDelete(in) ==
    <<CallOr("SnapshotGet", "gone"), Call("SnapshotDelete"),
      Wait("isWaitForPIInstanceSnapshotDeleted", "", "delete"), SetId(""), Ret>>

resourceIBMPINetworkCreate(in) ==
    <<Call("NetworkCreate"), SetId("set"),
      Wait("isWaitForIBMPINetworkAvailable", "", "create")>> \o ReadAndReturn

resourceIBMPIWorkspaceCreate(in) ==
    <<Call("WorkspaceCreate"), SetId("set"),
      Wait("waitForResourceInstanceCreate", "", "create")>> \o ReadAndReturn

resourceIBMPIImageExportCreate(in) ==
    <<Call("ExportImage"), SetId("set"),
      Wait("waitForIBMPIJobCompleted", "", "create"), Ret>>

\* The image-copy branch (pi_image_id given), and the import from cloud
\* object storage (pi_image_bucket_name given).
resourceIBMPIImageCreate(in) ==
    (IF "bucket_name" \in in.ch
     THEN <<Call("CreateCosImage"), Wait("waitForIBMPIJobCompleted", "", "create"),
            Call("ImageGet"), SetId("set")>>
     ELSE <<Call("ImageCreate"), SetId("set"),
            Wait("isWaitForIBMPIImageAvailable", "", "create")>>)
    \o ReadAndReturn

\* The capture to the image catalog (no cloud storage arguments to check).
resourceIBMPICaptureCreate(in) ==
    <<Call("CaptureInstanceToImageCatalogV2"), SetId("set"),
      Wait("waitForIBMPIJobCompleted", "", "create")>> \o ReadAndReturn

\* A variant that attaches the port without waiting for it to be DOWN.
resourceIBMPINetworkPortAttachCreate_NoPortWait(in) ==
    <<Call("CreatePort"),
      Call("UpdatePort"), Wait("isWaitForIBMPINetworkPortAttachAvailable", "", "update"),
      SetId("set")>> \o ReadAndReturn

resourceIBMPINetworkPortAttachCreate(in) ==
    <<Call("CreatePort"), Wait("isWaitForIBMPINetworkportAvailable", "", "create"),
      Call("UpdatePort"), Wait("isWaitForIBMPINetworkPortAttachAvailable", "", "update"),
      SetId("set")>> \o ReadAndReturn

\* With pi_network_security_group_rule_id given the rule is removed,
\* without it a rule is added; ruleID := *networkSecurityGroup.ID is taken
\* from the response of AddRule before the error is looked at.
resourceIBMPINetworkSecurityGroupRuleCreate(in) ==
    (IF "rule_id" \in in.ch
     THEN <<Call("DeleteRule"),
            Wait("isWaitForIBMPINetworkSecurityGroupRuleRemove", "", "delete")>>
     ELSE <<CallOr("AddRule", "derefResponse"),
            Wait("isWaitForIBMPINetworkSecurityGroupRuleAdd", "", "create")>>)
    \o <<SetId("set")>> \o ReadAndReturn

resourceIBMPICloudConnectionDelete(in) ==
    <<CallOr("CloudConnectionGet", "goneIfNotFound"), Call("CloudConnectionDelete")>>
    \o (IF in.jobRef THEN <<Wait("waitForIBMPIJobCompleted", "", "delete")>> ELSE <<>>)
    \o <<SetId(""), Ret>>

\* A variant that clears the ID before the job wait.
resourceIBMPIVPNConnectionDelete_ClearFirst(in) ==
    <<CallOr("VPNConnectionDelete", "goneIfNotFound"), SetId("")>>
    \o (IF in.jobRef THEN <<Wait("waitForIBMPIJobCompleted", "", "create")>> ELSE <<>>)
    \o <<Ret>>

resourceIBMPIVPNConnectionDelete(in) ==
    <<CallOr("VPNConnectionDelete", "goneIfNotFound")>>
    \o (IF in.jobRef THEN <<Wait("waitForIBMPIJobCompleted", "", "create")>> ELSE <<>>)
    \o <<SetId(""), Ret>>

\* The response of Create carries the cloud connection or a job.
resourceIBMPICloudConnectionCreate(in) ==
    <<CallOr("CloudConnectionCreate", "retryCloudConnectionsVPC"), SetId("set")>>
    \o (IF in.jobRef THEN <<Wait("waitForIBMPIJobCompleted", "", "create")>> ELSE <<>>)
    \o ReadAndReturn

\* A change of pi_cloud_connection_networks replaces one network by another.
resourceIBMPICloudConnectionUpdate(in) ==
    (IF in.ch \ {"networks"} # {}
     THEN <<CallOr("CloudConnectionUpdate", "retryCloudConnectionsVPC")>>
          \o (IF in.jobRef THEN <<Wait("waitForIBMPIJobCompleted", "", "create")>> ELSE <<>>)
     ELSE <<>>)
    \o (IF "networks" \in in.ch
        THEN <<Call("AddNetwork")>>
             \o (IF in.jobRef THEN <<Wait("waitForIBMPIJobCompleted", "", "update")>> ELSE <<>>)
             \o <<Call("DeleteNetwork")>>
             \o (IF in.jobRef THEN <<Wait("waitForIBMPIJobCompleted", "", "update")>> ELSE <<>>)
        ELSE <<>>)
    \o ReadAndReturn

resourceIBMPIInstanceDelete(in) ==
    <<Call("InstanceDelete"), Wait("isWaitForPIInstanceDeleted", "", "fixed"),
      SetId(""), Ret>>

\* The wait of one created instance.
InstanceCreateWait(in) ==
    IF in.noStorage
    THEN Wait("isWaitForPIInstanceShutoff", in.ready, "fixed")
    ELSE Wait("isWaitForPIInstanceAvailable", in.ready, "fixed")

\* A variant of the create that waits for the first instance only.
resourceIBMPIInstanceCreate_FirstOnly(in) ==
    <<Call("InstanceCreate"), SetId("set"), InstanceCreateWait(in)>>
    \o (IF "storage_pool_affinity" \in in.ch
        THEN [i \in 1..in.n |-> Call("Update:storage_pool_affinity")] ELSE <<>>)
    \o (IF "virtual_optical_device" \in in.ch
        THEN [i \in 1..in.n |-> Call("Update:virtual_optical_device")] ELSE <<>>)
    \o ReadAndReturn

resourceIBMPIInstanceCreate(in) ==
    <<Call("InstanceCreate"), SetId("set")>>
    \o [i \in 1..in.n |-> InstanceCreateWait(in)]
    \o (IF "storage_pool_affinity" \in in.ch
        THEN [i \in 1..in.n |-> Call("Update:storage_pool_affinity")] ELSE <<>>)
    \o (IF "virtual_optical_device" \in in.ch
        THEN [i \in 1..in.n |-> Call("Update:virtual_optical_device")] ELSE <<>>)
    \o ReadAndReturn

\* A variant that issues the stop action and does not wait for its effect.
stopLparForResourceChange_NoWait ==
    <<Call("Action:immediate-shutdown")>>

stopLparForResourceChange ==
    <<Call("Action:immediate-shutdown"), Wait("isWaitForPIInstanceStopped", "", "fixed")>>

startLparAfterResourceChange ==
    <<Call("Action:start"), Wait("isWaitForPIInstanceAvailable", "OK", "fixed")>>

performChangeAndReboot ==
    stopLparForResourceChange
    \o <<Call("Update:memory_processors"), Wait("isWaitforPIInstanceUpdate", "", "fixed")>>
    \o startLparAfterResourceChange

\* A variant that drops the error of the wait after the Update.
StopModifyStart_DropWaitError(in, update) ==
    (IF in.status = "SHUTOFF" THEN <<>> ELSE stopLparForResourceChange)
    \o <<Call(update), WaitOr("isWaitForPIInstanceStopped", "", "fixed", "ignore")>>
    \o startLparAfterResourceChange

\* The stop / modify / start of a processor-type or SAP-profile change.
StopModifyStart(in, update) ==
    (IF in.status = "SHUTOFF" THEN <<>> ELSE stopLparForResourceChange)
    \o <<Call(update), Wait("isWaitForPIInstanceStopped", "", "fixed")>>
    \o startLparAfterResourceChange

\* A variant of the memory / processors change that asks for the reboot
\* only when both values exceed their maximum.
MemoryProcessorsChange_BothExceed(in) ==
    IF in.over = {"memory", "processors"} /\ in.status # "SHUTOFF"
    THEN performChangeAndReboot
    ELSE <<Call("Update:memory_processors"),
           IF in.status = "SHUTOFF"
           THEN Wait("isWaitforPIInstanceUpdate", "", "fixed")
           ELSE Wait("isWaitForPIInstanceAvailable", "OK", "fixed")>>

\* The change of memory or processors: mem > maxMemLpar || procs > maxCPULpar
\* is in.over # {}.
MemoryProcessorsChange(in) ==
    IF in.over # {} /\ in.status # "SHUTOFF"
    THEN performChangeAndReboot
    ELSE <<Call("Update:memory_processors"),
           IF in.status = "SHUTOFF"
           THEN Wait("isWaitforPIInstanceUpdate", "", "fixed")
           ELSE Wait("isWaitForPIInstanceAvailable", "OK", "fixed")>>

\* The handler past its check of the recorded health status.
InstanceUpdateSteps(in) ==
    <<Call("CloudInstanceGet")>>
    \o (IF "name" \in in.ch
        THEN <<Call("Update:name"), Wait("isWaitForPIInstanceAvailable", "OK", "fixed")>>
        ELSE <<>>)
    \o (IF "proc_type" \in in.ch THEN StopModifyStart(in, "Update:proc_type") ELSE <<>>)
    \o (IF "virtual_cores" \in in.ch
        THEN <<Call("Update:virtual_cores"),
               Wait("isWaitForPIInstanceAvailable", "OK", "fixed")>>
        ELSE <<>>)
    \o (IF "memory_processors" \in in.ch THEN MemoryProcessorsChange(in) ELSE <<>>)
    \o (IF "license_repository_capacity" \in in.ch
        THEN <<Call("Update:license_repository_capacity"),
               WaitOr("isWaitForPIInstanceAvailable", "OK", "fixed", "ignore")>>
        ELSE <<>>)
    \o (IF "sap_profile" \in in.ch THEN StopModifyStart(in, "Update:sap_profile") ELSE <<>>)
    \o (IF "storage_pool_affinity" \in in.ch
        THEN <<Call("Update:storage_pool_affinity")>> ELSE <<>>)
    \o (IF "placement_group" \in in.ch
        THEN (IF in.pgOld THEN <<CallOr("DeleteMember", "continueIfNotMember")>> ELSE <<>>)
             \o (IF in.pgNew THEN <<Call("AddMember")>> ELSE <<>>)
        ELSE <<>>)
    \o (IF "software_licenses" \in in.ch
        THEN (IF in.status = "ACTIVE" THEN <<>>
              ELSE <<Wait("isWaitForPIInstanceAvailable", "OK", "fixed")>>)
             \o (IF in.rdsUsers < 0
                 THEN <<Fail("requires IBM i Rational Dev Studio number of users")>>
                 ELSE <<Call("Update:software_licenses"),
                        Wait("isWaitForPIInstanceSoftwareLicenses", "", "fixed")>>)
        ELSE <<>>)
    \o ReadAndReturn

\* A variant that looks at the recorded health status after the Get of the
\* cloud instance.
resourceIBMPIInstanceUpdate_CheckAfterGet(in) ==
    IF in.health = "WARNING"
    THEN <<Call("CloudInstanceGet"), Fail("lpar health in the WARNING State")>>
    ELSE InstanceUpdateSteps(in)

resourceIBMPIInstanceUpdate(in) ==
    IF in.health = "WARNING" THEN <<Fail("lpar health in the WARNING State")>>
    ELSE InstanceUpdateSteps(in)

Handlers ==
    {"resourceIBMPIVolumeCreate", "resourceIBMPIVolumeUpdate", "resourceIBMPIVolumeDelete",
     "resourceIBMPIVolumeGroupCreate", "resourceIBMPIVolumeGroupUpdate",
     "resourceIBMPIVolumeGroupDelete", "resourceIBMPISnapshotCreate",
     "resourceIBMPISnapshotUpdate", "resourceIBMPISnapshotDelete",
     "resourceIBMPINetworkCreate", "resourceIBMPIWorkspaceCreate",
     "resourceIBMPIImageExportCreate", "resourceIBMPIImageCreate",
     "resourceIBMPIVPNConnectionDelete", "resourceIBMPIInstanceDelete",
     "resourceIBMPIInstanceCreate", "resourceIBMPIInstanceUpdate",
     "resourceIBMPICloudConnectionCreate", "resourceIBMPICloudConnectionUpdate",
     "resourceIBMPICloudConnectionDelete", "resourceIBMPICaptureCreate",
     "resourceIBMPINetworkPortAttachCreate",
     "resourceIBMPINetworkSecurityGroupRuleCreate"}

CreateHandlers ==
    {"resourceIBMPIVolumeCreate", "resourceIBMPIVolumeGroupCreate",
     "resourceIBMPISnapshotCreate", "resourceIBMPINetworkCreate",
     "resourceIBMPIWorkspaceCreate", "resourceIBMPIImageExportCreate",
     "resourceIBMPIImageCreate", "resourceIBMPIInstanceCreate",
     "resourceIBMPICloudConnectionCreate", "resourceIBMPICaptureCreate",
     "resourceIBMPINetworkPortAttachCreate",
     "resourceIBMPINetworkSecurityGroupRuleCreate"}

Program(h, in) ==
    CASE h = "resourceIBMPIVolumeCreate" -> resourceIBMPIVolumeCreate(in)
      [] h = "resourceIBMPIVolumeUpdate" -> resourceIBMPIVolumeUpdate(in)
      [] h = "resourceIBMPIVolumeDelete" -> resourceIBMPIVolumeDelete(in)
      [] h = "resourceIBMPIVolumeGroupCreate" -> resourceIBMPIVolumeGroupCreate(in)
      [] h = "resourceIBMPIVolumeGroupUpdate" -> resourceIBMPIVolumeGroupUpdate(in)
      [] h = "resourceIBMPIVolumeGroupDelete" -> resourceIBMPIVolumeGroupDelete(in)
      [] h = "resourceIBMPISnapshotCreate" -> resourceIBMPISnapshotCreate(in)
      [] h = "resourceIBMPISnapshotUpdate" -> resourceIBMPISnapshotUpdate(in)
      [] h = "resourceIBMPISnapshotDelete" -> resourceIBMPISnapshotDelete(in)
      [] h = "resourceIBMPINetworkCreate" -> resourceIBMPINetworkCreate(in)
      [] h = "resourceIBMPIWorkspaceCreate" -> resourceIBMPIWorkspaceCreate(in)
      [] h = "resourceIBMPIImageExportCreate" -> resourceIBMPIImageExportCreate(in)
      [] h = "resourceIBMPIImageCreate" -> resourceIBMPIImageCreate(in)
      [] h = "resourceIBMPIVPNConnectionDelete" -> resourceIBMPIVPNConnectionDelete(in)
      [] h = "resourceIBMPIInstanceDelete" -> resourceIBMPIInstanceDelete(in)
      [] h = "resourceIBMPIInstanceCreate" -> resourceIBMPIInstanceCreate(in)
      [] h = "resourceIBMPIInstanceUpdate" -> resourceIBMPIInstanceUpdate(in)
      [] h = "resourceIBMPICloudConnectionCreate" -> resourceIBMPICloudConnectionCreate(in)
      [] h = "resourceIBMPICloudConnectionUpdate" -> resourceIBMPICloudConnectionUpdate(in)
      [] h = "resourceIBMPICloudConnectionDelete" -> resourceIBMPICloudConnectionDelete(in)
      [] h = "resourceIBMPICaptureCreate" -> resourceIBMPICaptureCreate(in)
      [] h = "resourceIBMPINetworkPortAttachCreate" ->
            resourceIBMPINetworkPortAttachCreate(in)
      [] h = "resourceIBMPINetworkSecurityGroupRuleCreate" ->
            resourceIBMPINetworkSecurityGroupRuleCreate(in)

\* Bound of the model: the number of instances one create call may return.
MaxInstances == 2

UpdateChanges ==
    {{"name"}, {"proc_type"}, {"virtual_cores"}, {"memory_processors"},
     {"license_repository_capacity"}, {"sap_profile"}, {"storage_pool_affinity"},
     {"placement_group"}, {"software_licenses"},
     {"license_repository_capacity", "storage_pool_affinity"},
     {"proc_type", "sap_profile"}}

Inputs(h) ==
    CASE h \in {"resourceIBMPIVolumeUpdate"} ->
            {[DefaultInput EXCEPT !.ch = c] : c \in {{}, {"replication_enabled"}}}
      [] h = "resourceIBMPIVolumeGroupUpdate" ->
            {[DefaultInput EXCEPT !.ch = c] : c \in {{}, {"volume_ids"}}}
      [] h = "resourceIBMPISnapshotUpdate" ->
            {[DefaultInput EXCEPT !.ch = c] : c \in {{}, {"name"}}}
      [] h = "resourceIBMPIVolumeGroupDelete" ->
            {[DefaultInput EXCEPT !.volids = b] : b \in BOOLEAN}
      [] h = "resourceIBMPIImageCreate" ->
            {[DefaultInput EXCEPT !.ch = c] : c \in {{"image_id"}, {"bucket_name"}}}
      [] h = "resourceIBMPINetworkSecurityGroupRuleCreate" ->
            {[DefaultInput EXCEPT !.ch = c] : c \in {{}, {"rule_id"}}}
      [] h \in {"resourceIBMPIVPNConnectionDelete", "resourceIBMPICloudConnectionCreate",
                "resourceIBMPICloudConnectionDelete"} ->
            {[DefaultInput EXCEPT !.jobRef = b] : b \in BOOLEAN}
      [] h = "resourceIBMPICloudConnectionUpdate" ->
            {[DefaultInput EXCEPT !.ch = c, !.jobRef = b] :
                c \in SUBSET {"speed", "networks"}, b \in BOOLEAN}
      [] h = "resourceIBMPIInstanceCreate" ->
            {[DefaultInput EXCEPT !.n = k, !.noStorage = b, !.ready = r, !.ch = c] :
                k \in 1..MaxInstances, b \in BOOLEAN, r \in {"OK", "WARNING"},
                c \in {{}, {"virtual_optical_device"}}}
      [] h = "resourceIBMPIInstanceUpdate" ->
            {[DefaultInput EXCEPT !.ch = c, !.status = st, !.over = v] :
                c \in UpdateChanges, st \in {"ACTIVE", "SHUTOFF"},
                v \in SUBSET {"memory", "processors"}}
            \cup {[DefaultInput EXCEPT !.ch = {"name"}, !.health = "WARNING"],
                  [DefaultInput EXCEPT !.ch = {"software_licenses"}, !.rdsUsers = -1],
                  [DefaultInput EXCEPT !.ch = {"placement_group"}, !.pgOld = FALSE]}
      [] OTHER -> {DefaultInput}

\* The Update calls of the instance that the remote side applies through
\* the transitional states RESIZE and VERIFY_RESIZE.
MutatingUpdates == {"Update:memory_processors", "Update:proc_type", "Update:sap_profile"}

\* The calls that retryCloudConnectionsVPC repeats.
RetriedCalls == {"CloudConnectionCreate", "CloudConnectionUpdate"}

\* What a remote call may answer: success, the typed not-found error
\* (for DeleteMember: "is not part of placement-group"), an error whose
\* text matches vpcUnavailable, or another error.
CallResults(name) ==
    CASE name \in {"SnapshotGet", "VPNConnectionDelete", "DeleteMember",
                   "CloudConnectionGet"} ->
            {"ok", "NotFound", "Other"}
      [] name \in RetriedCalls -> {"ok", "Unavailable", "Other"}
      [] OTHER -> {"ok", "Other"}

vpcRetryCount == 2

\* vpcUnavailable.Match([]byte(err.Error()))
vpcUnavailable(e) == e = "Unavailable"

\* A variant of the loop test that makes one more round.
retryCloudConnectionsVPC_OneMore(c, e) == c <= vpcRetryCount /\ e # "nil"

\* The loop test of retryCloudConnectionsVPC.
retryCloudConnectionsVPC(c, e) == c < vpcRetryCount /\ e # "nil"

\* No ID is being built or decoded.
NoDecode == [by |-> "none", res |-> "none", ids |-> <<>>]
IdOff ==
    /\ segs = <<>>
    /\ builder = "none"
    /\ token = <<>>
    /\ dec = NoDecode
    /\ ipc = "off"

Init ==
    /\ IdOff
    /\ handler \in Handlers
    /\ input \in Inputs(handler)
    /\ hpc = 1
    /\ dId = IF handler \in CreateHandlers THEN "unset" ELSE "set"
    /\ hret = "running"
    /\ calls = <<>>
    /\ failedWaits = 0
    /\ wkind = "none"
    /\ ready = ""
    /\ gpc = "exit"
    /\ mpc = "idle"
    /\ resCh = <<>>
    /\ chClosed = FALSE
    /\ cancelCh = FALSE
    /\ result = EmptyResult
    /\ notfoundTick = 0
    /\ lastResult = EmptyResult
    /\ wret = NotReturned
    /\ fetches = 0
    /\ answered = 0
    /\ pend = 0
    /\ lastObs = Obs("none", "")
    /\ lastRef = Refreshed("nil", "", NoErr)
    /\ tmo = NoTimeout
    /\ ctxDone = FALSE
    /\ mutation = "none"
    /\ rpc = "idle"
    /\ count = 0
    /\ errMsg = "nil"
    /\ slept = 0
    /\ errs = <<>>

Instr == Program(handler, input)[hpc]
Running == hret = "running" /\ mpc = "idle" /\ rpc = "idle"

\* A remote call of the handler and the branch on its error.
HCall ==
    /\ Running
    /\ Instr.op = "call"
    /\ calls' = Append(calls, Instr.name)
    /\ \E res \in CallResults(Instr.name) :
         /\ mutation' = IF res = "ok" /\ Instr.name \in MutatingUpdates
                         THEN "acked" ELSE mutation
         /\ errMsg' = IF res = "ok" THEN "nil" ELSE res
         /\ errs' = IF Instr.name \in RetriedCalls THEN <<res>> ELSE errs
         /\ CASE res = "ok" \/ (res = "NotFound" /\ Instr.onErr = "continueIfNotMember") ->
                hpc' = hpc + 1 /\ UNCHANGED <<dId, hret, rpc>>
             [] res # "ok" /\ (Instr.onErr = "gone"
                               \/ (res = "NotFound" /\ Instr.onErr = "goneIfNotFound")) ->
                dId' = "" /\ hret' = "ok" /\ UNCHANGED <<hpc, rpc>>
             [] res # "ok" /\ Instr.onErr = "retryCloudConnectionsVPC" /\ vpcUnavailable(res) ->
                rpc' = "loop" /\ UNCHANGED <<hpc, dId, hret>>
             [] res # "ok" /\ Instr.onErr = "derefResponse" ->
                hret' = "panic" /\ UNCHANGED <<hpc, dId, rpc>>
             [] OTHER ->
                hret' = "err" /\ UNCHANGED <<hpc, dId, rpc>>
    /\ count' = 0
    /\ UNCHANGED <<idvars, handler, input, failedWaits, slept, wvars, ctxDone>>

\* retryCloudConnectionsVPC: time.Sleep(vpcRetryDuration) of one round.
HRetrySleep ==
    /\ hret = "running"
    /\ rpc = "loop"
    /\ retryCloudConnectionsVPC(count, errMsg)
    /\ slept' = slept + 1
    /\ rpc' = "slept"
    /\ UNCHANGED <<idvars, handler, input, hpc, dId, hret, calls, failedWaits, count, errMsg,
                   errs, wvars, rvars>>

\* retryCloudConnectionsVPC: errMsg = ccVPCRetry(); count++
HRetryCall ==
    /\ hret = "running"
    /\ rpc = "slept"
    /\ calls' = Append(calls, Instr.name)
    /\ \E res \in CallResults(Instr.name) :
         /\ errMsg' = IF res = "ok" THEN "nil" ELSE res
         /\ errs' = Append(errs, res)
    /\ count' = count + 1
    /\ rpc' = "loop"
    /\ UNCHANGED <<idvars, handler, input, hpc, dId, hret, failedWaits, slept, wvars, rvars>>

\* retryCloudConnectionsVPC returns errMsg, and the handler's check of it.
HRetryReturn ==
    /\ hret = "running"
    /\ rpc = "loop"
    /\ ~retryCloudConnectionsVPC(count, errMsg)
    /\ rpc' = "idle"
    /\ IF errMsg # "nil"
       THEN hret' = "err" /\ UNCHANGED hpc
       ELSE hpc' = hpc + 1 /\ UNCHANGED hret
    /\ UNCHANGED <<idvars, handler, input, dId, calls, failedWaits, count, errMsg, slept, errs,
                   wvars, rvars>>

\* d.SetId(...)
HSetId ==
    /\ Running
    /\ Instr.op = "setid"
    /\ dId' = Instr.name
    /\ hpc' = hpc + 1
    /\ UNCHANGED <<idvars, handler, input, hret, calls, failedWaits, retryvars, wvars, rvars>>

\* return diag.Errorf(...) on an input the handler rejects.
HFail ==
    /\ Running
    /\ Instr.op = "fail"
    /\ hret' = "err"
    /\ UNCHANGED <<idvars, handler, input, hpc, dId, calls, failedWaits, retryvars, wvars, rvars>>

\* return nil
HReturn ==
    /\ Running
    /\ Instr.op = "return"
    /\ hret' = "ok"
    /\ UNCHANGED <<idvars, handler, input, hpc, dId, calls, failedWaits, retryvars, wvars, rvars>>

\* stateConf.WaitForStateContext(ctx) is entered: the refresh goroutine
\* starts and the caller goes to its select.
HWaitStart ==
    /\ Running
    /\ Instr.op = "wait"
    /\ wkind' = Instr.name
    /\ ready' = Instr.arg
    /\ gpc' = "delay"
    /\ mpc' = "select"
    /\ resCh' = <<>>
    /\ chClosed' = FALSE
    /\ cancelCh' = FALSE
    /\ result' = EmptyResult
    /\ notfoundTick' = 0
    /\ lastResult' = EmptyResult
    /\ wret' = NotReturned
    /\ fetches' = 0
    /\ answered' = 0
    /\ pend' = 0
    /\ lastObs' = Obs("none", "")
    /\ lastRef' = Refreshed("nil", "", NoErr)
    /\ tmo' = NoTimeout
    /\ UNCHANGED <<idvars, hvars, rvars>>

\* The refresh goroutine of a returned wait has ended, or is blocked for
\* good on the full result channel.
Quiescent ==
    \/ gpc = "exit"
    \/ gpc \in {"send", "sendfinal"} /\ Len(resCh) = 1

\* _, err = isWaitFor...(...) returns to the handler, and the handler's
\* check of err.
HWaitReturn ==
    /\ hret = "running"
    /\ mpc = "returned"
    /\ Quiescent
    /\ mpc' = "idle"
    /\ failedWaits' = IF wret.err # NoErr THEN failedWaits + 1 ELSE failedWaits
    /\ IF wret.err # NoErr /\ Instr.onErr = "return"
       THEN hret' = "err" /\ UNCHANGED hpc
       ELSE hpc' = hpc + 1 /\ UNCHANGED hret
    /\ UNCHANGED <<idvars, handler, input, dId, calls, retryvars, rvars, wkind, ready, gpc, resCh,
                   chClosed, cancelCh, result, notfoundTick, lastResult, wret,
                   fetches, answered, pend, lastObs, lastRef, tmo>>

Next ==
    \/ HCall \/ HSetId \/ HFail \/ HReturn \/ HWaitStart \/ HWaitReturn
    \/ HRetrySleep \/ HRetryCall \/ HRetryReturn
    \/ GDelay \/ GSend \/ GSleep \/ GRefresh \/ GSendFinal
    \/ MRecv \/ MCtxDone \/ MTimeout \/ MGrace
    \/ CtxCancel

Spec == Init /\ [][Next]_vars

\* ------------------------------------------------------------------------
\* Composite identifiers: how the handlers build d.Id() and take it apart

\* Bounds of the model: the longest segment value and the most values an
\* ID is built from.
MaxLen == 2
MaxSegs == 3

\* A string is a sequence of characters; "a" stands for every character
\* that is not the separator.
Chars == {"a", "/"}
Strings == UNION {[1..k -> Chars] : k \in 0..MaxLen}

\* strings.Contains(id, "/")
HasSep(id) == \E i \in 1..Len(id) : id[i] = "/"

\* strings.Split(id, "/"): one part more than there are separators.
RECURSIVE SplitFrom(_, _, _)
SplitFrom(id, i, cur) ==
    IF i > Len(id) THEN <<cur>>
    ELSE IF id[i] = "/" THEN <<cur>> \o SplitFrom(id, i + 1, <<>>)
    ELSE SplitFrom(id, i + 1, Append(cur, id[i]))
Split(id) == SplitFrom(id, 1, <<>>)

\* fmt.Sprintf("%s/%s", ...) and fmt.Sprintf("%s/%s/%s", ...)
RECURSIVE Sprintf(_)
Sprintf(ss) ==
    IF Len(ss) = 1 THEN ss[1] ELSE ss[1] \o <<"/">> \o Sprintf(Tail(ss))

\* flex.IdParts(id): the parts of an ID, or an error for an ID without a
\* separator. It is called with the ID alone by the handlers of two-part,
\* three-part and four-part IDs alike, so the number of parts a handler
\* expects is unknown to it.
IdParts(id) ==
    IF HasSep(id)
    THEN [parts |-> Split(id), err |-> FALSE]
    ELSE [parts |-> <<>>, err |-> TRUE]

\* A variant of splitID that returns the two parts in the other order.
splitID_Swapped(id) ==
    LET r == IdParts(id)
    IN  IF r.err THEN [id1 |-> <<>>, id2 |-> <<>>, err |-> TRUE]
        ELSE [id1 |-> r.parts[2], id2 |-> r.parts[1], err |-> FALSE]

splitID(id) ==
    LET r == IdParts(id)
    IN  IF r.err THEN [id1 |-> <<>>, id2 |-> <<>>, err |-> TRUE]
        ELSE [id1 |-> r.parts[1], id2 |-> r.parts[2], err |-> FALSE]

\* A variant of the rule's ID that puts the rule first.
NetworkSecurityGroupRuleId_RuleFirst(mode, ss) ==
    IF mode = "remove"
    THEN Sprintf(<<ss[1], ss[2]>>)
    ELSE Sprintf(<<ss[3], ss[1], ss[2]>>)

\* The ID that resourceIBMPINetworkSecurityGroupRuleCreate sets, from the
\* cloud instance, the group and the rule: without the rule when the rule
\* was removed (pi_network_security_group_rule_id given).
NetworkSecurityGroupRuleId(mode, ss) ==
    IF mode = "remove"
    THEN Sprintf(<<ss[1], ss[2]>>)
    ELSE Sprintf(<<ss[1], ss[2], ss[3]>>)

\* The create handlers that build an ID, and the values they build it from.
\* The first value is the cloud instance (for the image export the image),
\* the last one a remote ID, a destination or a region; the second one is
\* user-supplied text in NamedBuilders.
PairBuilders == {"resourceIBMPIVolumeCreate"}
NamedBuilders ==
    {"resourceIBMPICaptureCreate", "resourceIBMPIImageExportCreate",
     "resourceIBMPINetworkPortAttachCreate"}
RuleBuilders ==
    {"resourceIBMPINetworkSecurityGroupRuleCreate:add",
     "resourceIBMPINetworkSecurityGroupRuleCreate:remove"}
Builders == PairBuilders \cup NamedBuilders \cup RuleBuilders

BuilderInput(b, ss) ==
    /\ Len(ss) = (IF b \in PairBuilders THEN 2 ELSE 3)
    /\ \A i \in 1..Len(ss) : HasSep(ss[i]) => (i = 2 /\ b \in NamedBuilders)
    /\ \A i \in 1..Len(ss) : ss[i] = <<>> => (i = 2 /\ b \in NamedBuilders)

BuiltId(b, ss) ==
    CASE b = "resourceIBMPINetworkSecurityGroupRuleCreate:add" ->
            NetworkSecurityGroupRuleId("add", ss)
      [] b = "resourceIBMPINetworkSecurityGroupRuleCreate:remove" ->
            NetworkSecurityGroupRuleId("remove", ss)
      [] OTHER -> Sprintf(ss)

\* d.SetId(fmt.Sprintf(...)) of a create handler.
SetIdSprintf ==
    /\ ipc = "new"
    /\ \E b \in Builders :
         /\ BuilderInput(b, segs)
         /\ builder' = b
         /\ token' = BuiltId(b, segs)
    /\ ipc' = "stored"
    /\ UNCHANGED <<hvars, wvars, rvars, segs, dec>>

\* An ID that was not built by a create handler: the state importer
\* (schema.ResourceImporter{}) stores the text it is given.
ImportState ==
    /\ ipc = "new"
    /\ builder' = "import"
    /\ token' = Sprintf(segs)
    /\ ipc' = "stored"
    /\ UNCHANGED <<hvars, wvars, rvars, segs, dec>>

\* cloudInstanceID, id, err := splitID(d.Id()) at the head of a read, update
\* or delete handler, and its "if err != nil { return diag.FromErr(err) }".
DecodeSplitID ==
    /\ ipc = "stored"
    /\ LET r == splitID(token)
       IN  dec' = IF r.err
                  THEN [by |-> "splitID", res |-> "error", ids |-> <<>>]
                  ELSE [by |-> "splitID", res |-> "ok", ids |-> <<r.id1, r.id2>>]
    /\ ipc' = "decoded"
    /\ UNCHANGED <<hvars, wvars, rvars, segs, builder, token>>

\* The head of resourceIBMPICaptureRead (and of the capture's delete):
\* parts[0], parts[1], parts[2] of flex.IdParts(d.Id()); an index beyond
\* the parts is a run-time panic.
resourceIBMPICaptureRead ==
    /\ ipc = "stored"
    /\ LET r == IdParts(token)
       IN  dec' = IF r.err
                  THEN [by |-> "resourceIBMPICaptureRead", res |-> "error", ids |-> <<>>]
                  ELSE IF Len(r.parts) < 3
                  THEN [by |-> "resourceIBMPICaptureRead", res |-> "panic", ids |-> <<>>]
                  ELSE [by |-> "resourceIBMPICaptureRead", res |-> "ok",
                        ids |-> <<r.parts[1], r.parts[2], r.parts[3]>>]
    /\ ipc' = "decoded"
    /\ UNCHANGED <<hvars, wvars, rvars, segs, builder, token>>

\* The head of resourceIBMPINetworkSecurityGroupRuleDelete: with three
\* parts the rule is deleted, with any other number the ID is cleared and
\* nil returned.
resourceIBMPINetworkSecurityGroupRuleDelete ==
    /\ ipc = "stored"
    /\ LET r == IdParts(token)
           by == "resourceIBMPINetworkSecurityGroupRuleDelete"
       IN  dec' = IF r.err
                  THEN [by |-> by, res |-> "error", ids |-> <<>>]
                  ELSE IF Len(r.parts) = 3
                  THEN [by |-> by, res |-> "ok", ids |-> r.parts]
                  ELSE [by |-> by, res |-> "deleted", ids |-> <<>>]
    /\ ipc' = "decoded"
    /\ UNCHANGED <<hvars, wvars, rvars, segs, builder, token>>

\* Bound of the model: the most vPMEM volumes one create call returns.
MaxVolumes == 2

\* flex.SepIdParts(id, "/"): the parts of the ID, an error when it has no
\* separator.
SepIdParts(id) == IdParts(id)

\* The IDs the remote side gives to volumes: not empty, no separator.
VolumeIdLists ==
    UNION {[1..k -> {v \in Strings : v # <<>> /\ ~HasSep(v)}] : k \in 0..MaxVolumes}

\* resourceIBMPIInstanceVpmenVolumesCreate: the ID is the cloud instance and
\* the instance, followed by the ID of every volume of the response.
resourceIBMPIInstanceVpmenVolumesCreate ==
    /\ ipc = "new"
    /\ Len(segs) = 2
    /\ \A i \in 1..2 : segs[i] # <<>> /\ ~HasSep(segs[i])
    /\ \E vols \in VolumeIdLists :
         /\ segs' = segs \o vols
         /\ token' = Sprintf(segs \o vols)
    /\ builder' = "resourceIBMPIInstanceVpmenVolumesCreate"
    /\ ipc' = "stored"
    /\ UNCHANGED <<hvars, wvars, rvars, dec>>

\* A variant of the delete loop that starts at the instance ID.
VpmemVolumeIDs_FromInstance(parts) == SubSeq(parts, 2, Len(parts))

\* for i := 2; i < len(parts); i++ { ... parts[i] ... }
VpmemVolumeIDs(parts) == SubSeq(parts, 3, Len(parts))

\* resourceIBMPIInstanceVpmenVolumesDelete on the ID of a vPMEM volumes
\* resource, built by the create or imported: DeletePvmVpmemVolume succeeds
\* for the first k volumes of the ID and, when there are more, fails for
\* the next one, on which the handler returns.  dec.ids holds the volumes a
\* delete call was issued for, in the order of the calls.
resourceIBMPIInstanceVpmenVolumesDelete ==
    /\ ipc = "stored"
    /\ builder \in {"resourceIBMPIInstanceVpmenVolumesCreate", "import"}
    /\ LET r == SepIdParts(token)
           by == "resourceIBMPIInstanceVpmenVolumesDelete"
       IN  IF r.err
           THEN /\ dec' = [by |-> by, res |-> "error", ids |-> <<>>]
                /\ token' = token
           ELSE LET vols == VpmemVolumeIDs(r.parts)
                IN  \E k \in 0..Len(vols) :
                      /\ dec' = [by |-> by,
                                 res |-> IF k = Len(vols) THEN "deleted" ELSE "error",
                                 ids |-> SubSeq(vols, 1, IF k < Len(vols) THEN k + 1 ELSE k)]
                      /\ token' = IF k = Len(vols) THEN <<>> ELSE token
    /\ ipc' = "decoded"
    /\ UNCHANGED <<hvars, wvars, rvars, segs, builder>>

\* The values an ID is built from are drawn at the start; no handler of
\* the first part of the model runs.
CodecInit ==
    /\ segs \in UNION {[1..k -> Strings] : k \in 1..MaxSegs}
    /\ builder = "none"
    /\ token = <<>>
    /\ dec = NoDecode
    /\ ipc = "new"
    /\ handler = "resourceIBMPIVolumeCreate"
    /\ input = DefaultInput
    /\ hpc = 1
    /\ dId = "unset"
    /\ hret = "ok"
    /\ calls = <<>>
    /\ failedWaits = 0
    /\ wkind = "none"
    /\ ready = ""
    /\ gpc = "exit"
    /\ mpc = "idle"
    /\ resCh = <<>>
    /\ chClosed = FALSE
    /\ cancelCh = FALSE
    /\ result = EmptyResult
    /\ notfoundTick = 0
    /\ lastResult = EmptyResult
    /\ wret = NotReturned
    /\ fetches = 0
    /\ answered = 0
    /\ pend = 0
    /\ lastObs = Obs("none", "")
    /\ lastRef = Refreshed("nil", "", NoErr)
    /\ tmo = NoTimeout
    /\ ctxDone = FALSE
    /\ mutation = "none"
    /\ rpc = "idle"
    /\ count = 0
    /\ errMsg = "nil"
    /\ slept = 0
    /\ errs = <<>>

CodecNext ==
    \/ SetIdSprintf \/ ImportState
    \/ DecodeSplitID \/ resourceIBMPICaptureRead
    \/ resourceIBMPINetworkSecurityGroupRuleDelete
    \/ resourceIBMPIInstanceVpmenVolumesCreate
    \/ resourceIBMPIInstanceVpmenVolumesDelete

CodecSpec == CodecInit /\ [][CodecNext]_vars

\* The clock advances (timers fire), the goroutines are scheduled and every
\* fetch returns.
Fairness ==
    /\ WF_vars(GDelay) /\ WF_vars(GSend) /\ WF_vars(GSleep) /\ WF_vars(GRefresh)
    /\ WF_vars(GSendFinal)
    /\ WF_vars(MRecv) /\ WF_vars(MCtxDone) /\ WF_vars(MTimeout) /\ WF_vars(MGrace)

LiveSpec == Spec /\ Fairness

\* ------------------------------------------------------------------------
\* Properties of the waits

\* No timeout fired in the current wait and the context is not done.
Undisturbed == ~tmo.fired /\ ~ctxDone
\* The refresh goroutine performs no further fetch.
LoopEnded == gpc \in {"sendfinal", "exit"} /\ fetches = answered

\* The waits of the create and update handlers for a resource to become
\* available, and what the remote side shows when it is.
AvailableWaits ==
    {"isWaitForIBMPIVolumeAvailable", "isWaitForIBMPIVolumeGroupAvailable",
     "isWaitForPIInstanceSnapshotAvailable", "isWaitForIBMPINetworkAvailable",
     "isWaitForIBMPIImageAvailable"}
RemoteTarget(w, o) ==
    /\ o.err = "none"
    /\ CASE w = "isWaitForIBMPIVolumeAvailable" -> o.status \in {"available", "in-use"}
         [] w = "isWaitForIBMPIVolumeGroupAvailable" -> o.status = "available"
         [] w = "isWaitForPIInstanceSnapshotAvailable" -> o.status = "available" /\ o.pct = 100
         [] w = "isWaitForIBMPINetworkAvailable" -> o.vlan
         [] w = "isWaitForIBMPIImageAvailable" -> o.status = "active"
         [] OTHER -> FALSE
RemotePending(w, o) == o.err = "none" /\ ~RemoteTarget(w, o)

C2_TimeoutNeverConverges ==
    (wkind \in AvailableWaits /\ tmo.fired /\ tmo.clean /\ wret.returned) =>
        Outcome(wret) = "TimedOut"

\* C2, amended: when the timeout fires before any fetch has shown a target
\* or fatal state, no further fetch is started and the wait never returns
\* Failed; it returns TimedOut, except that a fetch which was in flight
\* when the timeout fired and then shows the target state makes it return
\* Converged.
C2_TimeoutStopsFetching ==
    (wkind \in AvailableWaits /\ tmo.fired /\ tmo.clean) =>
        /\ fetches = tmo.fetches
        /\ wret.returned => Outcome(wret) \in {"TimedOut", "Converged"}
        /\ Outcome(wret) = "Converged" =>
              /\ tmo.fetches = tmo.answered + 1
              /\ answered = fetches
              /\ RemoteTarget(wkind, lastObs)

C2_Witness ==
    /\ wkind = "isWaitForIBMPINetworkAvailable"
    /\ tmo.fired /\ tmo.clean /\ tmo.answered >= 1
    /\ Outcome(wret) = "TimedOut"

\* The waits of the delete handlers.
DeleteWaits ==
    {"isWaitForPIInstanceDeleted", "isWaitForIBMPIVolumeDeleted",
     "isWaitForIBMPIVolumeGroupDeleted", "isWaitForPIInstanceSnapshotDeleted"}

\* C3: in every delete wait, a first fetch that reports not found makes
\* the wait return Converged on that fetch, and the delete handler then
\* clears the resource ID.
C3_DeleteConvergesOnNotFound ==
    (/\ wkind \in DeleteWaits
     /\ answered = 1 /\ lastObs.err = "NotFound"
     /\ Undisturbed
     /\ wret.returned) =>
        /\ Outcome(wret) = "Converged"
        /\ fetches = 1
        /\ hret # "running" => (hret = "ok" /\ dId = "")

\* C4: no delete wait returns Converged on a fetch that still retrieved
\* the resource, so a delete handler that cleared the ID after its wait
\* did so after a fetch found the resource absent.
C4_DeleteConvergesOnlyWhenAbsent ==
    (wkind \in DeleteWaits /\ Outcome(wret) = "Converged") =>
        answered > 0 /\ lastObs.err = "NotFound"

\* The waits with a fatal remote status.
FatalWaits ==
    {"isWaitForPIInstanceAvailable", "isWaitForPIInstanceShutoff",
     "waitForResourceInstanceCreate"}
RemoteFatal(w, o) ==
    /\ o.err = "none"
    /\ o.status = (IF w = "waitForResourceInstanceCreate" THEN "failed" ELSE "ERROR")

\* C5: a fetch that shows the fatal status (instance ERROR, workspace
\* failed) ends the polling and the wait never returns Converged on it,
\* although the instance waits list ERROR in Target; undisturbed, the wait
\* returns Failed, with the remote fault message in the error when the
\* payload carries one.
C5_FatalStatusFails ==
    (wkind \in FatalWaits /\ answered > 0 /\ RemoteFatal(wkind, lastObs)) =>
        /\ LoopEnded
        /\ wret.returned => Outcome(wret) # "Converged"
        /\ (wret.returned /\ Undisturbed) =>
              /\ Outcome(wret) = "Failed"
              /\ lastObs.fault # "" => wret.err.msg = lastObs.fault

C5_Witness ==
    /\ wkind = "isWaitForPIInstanceAvailable"
    /\ lastObs.status = "ERROR" /\ lastObs.fault = "no capacity"
    /\ Outcome(wret) = "Failed"
    /\ wret.err.msg = "no capacity"

\* What a Get of the job shows.
JobCompleted(o) == o.err = "none" /\ o.shape = "ok" /\ o.status = "completed"
JobFailed(o) == o.err = "none" /\ o.shape = "ok" /\ o.status = "failed"
JobUnreadable(o) == o.err # "none" \/ o.shape = "nil"

\* C6: waitForIBMPIJobCompleted returns success only on a fetch that shows
\* the job Completed after pending fetches only, and, undisturbed, always
\* on such a fetch; a fetch that shows the job Failed never yields success,
\* although Failed is in Target, and undisturbed yields an error that
\* carries the job's message.
C6_JobSucceedsIffCompleted ==
    wkind = "waitForIBMPIJobCompleted" =>
        /\ Outcome(wret) = "Converged" =>
              answered > 0 /\ JobCompleted(lastObs) /\ pend = answered - 1
        /\ (answered > 0 /\ JobCompleted(lastObs)) =>
              /\ pend = answered - 1 /\ LoopEnded
              /\ (wret.returned /\ Undisturbed) => Outcome(wret) = "Converged"
        /\ (answered > 0 /\ JobFailed(lastObs)) =>
              /\ LoopEnded
              /\ wret.returned => Outcome(wret) # "Converged"
              /\ (wret.returned /\ Undisturbed) =>
                    wret.err = Err("job status failed", lastObs.fault)

C6_Witness ==
    /\ wkind = "waitForIBMPIJobCompleted"
    /\ Undisturbed
    /\ JobCompleted(lastObs)
    /\ pend = 1 /\ answered = 2
    /\ Outcome(wret) = "Converged"

\* C7: a job fetch that errors, or yields no job or no status, ends the
\* job wait at once: no further fetch, never success, and undisturbed the
\* wait returns the error.
C7_JobFetchErrorEndsWait ==
    (wkind = "waitForIBMPIJobCompleted" /\ answered > 0 /\ JobUnreadable(lastObs)) =>
        /\ LoopEnded
        /\ pend = answered - 1
        /\ wret.returned => Outcome(wret) # "Converged"
        /\ (wret.returned /\ Undisturbed) => Outcome(wret) = "Failed"

C7_Witness ==
    /\ wkind = "waitForIBMPIJobCompleted"
    /\ answered = 1 /\ fetches = 1
    /\ lastObs.shape = "nil"
    /\ Outcome(wret) = "Failed"
    /\ wret.err.kind = "failed to get job status"

\* C8: a handler whose wait returned an error (Failed or TimedOut) returns
\* an error: it takes no further step and does not report success.
C8_FailedWaitFailsHandler ==
    failedWaits > 0 => hret = "err"

\* C9: in the waits of create and update for a resource to become
\* available, a fetch that reports not found ends the polling; it is not
\* counted as pending, the wait never returns Converged on it, and
\* undisturbed the wait returns Failed with the error of the Get.
C9_NotFoundFailsAvailableWait ==
    (wkind \in AvailableWaits /\ answered > 0 /\ lastObs.err = "NotFound") =>
        /\ LoopEnded
        /\ pend = answered - 1
        /\ wret.returned => Outcome(wret) # "Converged"
        /\ (wret.returned /\ Undisturbed) =>
              Outcome(wret) = "Failed" /\ wret.err = GetError(lastObs)

C9_Witness ==
    /\ wkind = "isWaitForIBMPIVolumeGroupAvailable"
    /\ answered = 2 /\ pend = 1
    /\ lastObs.err = "NotFound"
    /\ Outcome(wret) = "Failed"

\* The waits whose refresh function hands the remote status through, and
\* a status that is in neither set of the wait and is not its failure status.
RawStatusWaits == {"waitForResourceInstanceCreate", "waitForIBMPIJobCompleted"}
Unrecognised(w, o) ==
    /\ o.err = "none" /\ o.shape = "ok"
    /\ o.status \notin (StateChangeConf(w).Pending \cup StateChangeConf(w).Target)
    /\ o.status # "failed"

\* C10 as stated: a status in neither the Pending nor the Target set is
\* taken for a pending one; the wait keeps polling and does not end with
\* an error on it.
C10_UnrecognisedIsPending ==
    (wkind \in RawStatusWaits /\ answered > 0 /\ Unrecognised(wkind, lastObs)) =>
        /\ pend = answered
        /\ Outcome(wret) # "Failed"

\* C10, amended: a status in neither the Pending nor the Target set ends
\* the polling; the wait never returns Converged on it, and undisturbed it
\* returns Failed with an unexpected-state error that names the status.
C10_UnrecognisedFails ==
    (wkind \in RawStatusWaits /\ answered > 0 /\ Unrecognised(wkind, lastObs)) =>
        /\ LoopEnded
        /\ pend = answered - 1
        /\ wret.returned => Outcome(wret) # "Converged"
        /\ (wret.returned /\ Undisturbed) =>
              wret.err = Err("UnexpectedStateError", lastObs.status)

C10_Witness ==
    /\ wkind = "waitForResourceInstanceCreate"
    /\ lastObs.status = "removed"
    /\ answered = 2 /\ pend = 1
    /\ Outcome(wret) = "Failed"
    /\ wret.err.kind = "UnexpectedStateError"

\* ------------------------------------------------------------------------
\* Properties of the stop / modify / start paths

\* The handler issues the remote call name in this step.
Issued(name) == calls' # calls /\ calls'[Len(calls')] = name
\* The number of calls name issued so far.
Count(name) == Cardinality({i \in 1..Len(calls) : calls[i] = name})
\* The last wait ended with success on a fetch that showed the instance
\* SHUTOFF with health OK, and no call was issued since.
StoppedSeen(lastCall) ==
    /\ Len(calls) > 0 /\ calls[Len(calls)] = lastCall
    /\ mpc = "idle"
    /\ Outcome(wret) = "Converged"
    /\ answered > 0
    /\ lastObs.err = "none" /\ lastObs.status = "SHUTOFF" /\ lastObs.health = "OK"
\* The update of memory / processors that goes through performChangeAndReboot.
RebootPath ==
    /\ handler = "resourceIBMPIInstanceUpdate"
    /\ input.ch = {"memory_processors"}
    /\ input.over # {} /\ input.status # "SHUTOFF"

\* C11: in performChangeAndReboot the stop action is issued once, and the
\* Update of memory / processors is issued only after that one stop action
\* and after a fetch made since then showed the instance SHUTOFF with
\* health OK.
C11_UpdateAfterStopObserved ==
    [][RebootPath =>
          /\ Issued("Action:immediate-shutdown") => Count("Action:immediate-shutdown") = 0
          /\ Issued("Update:memory_processors") =>
                /\ Count("Action:immediate-shutdown") = 1
                /\ wkind = "isWaitForPIInstanceStopped"
                /\ StoppedSeen("Action:immediate-shutdown")]_vars

C11_Witness ==
    /\ RebootPath
    /\ calls = <<"CloudInstanceGet", "Action:immediate-shutdown", "Update:memory_processors">>
    /\ wkind = "isWaitForPIInstanceStopped"
    /\ pend >= 1
    /\ lastObs.status = "SHUTOFF"

\* The stop / modify / start paths of resourceIBMPIInstanceUpdate:
\* performChangeAndReboot, the processor-type and the SAP-profile change.
StopModifyStartPath ==
    \/ RebootPath
    \/ /\ handler = "resourceIBMPIInstanceUpdate"
       /\ input.ch \in {{"proc_type"}, {"sap_profile"}}

\* C12: in every stop / modify / start path the start action is issued
\* only when the remote side has applied the mutation and left its
\* transitional states, however late the effect of the acknowledged Update
\* becomes visible.
C12_StartAfterMutationApplied ==
    [][(StopModifyStartPath /\ Issued("Action:start")) => mutation = "applied"]_vars

\* C13: in every stop / modify / start path a failed or timed-out wait makes
\* the handler return an error, and once a call or a wait has failed no
\* further remote call is issued: in particular no start action after a
\* failed stop wait, Update or post-mutation wait.
C13_NoStartAfterFailure ==
    [][StopModifyStartPath =>
          /\ failedWaits' > 0 => hret' = "err"
          /\ (hret = "err" \/ failedWaits > 0) => calls' = calls
          /\ Issued("Action:start") => (failedWaits = 0 /\ hret = "running")]_vars

C13_Witness ==
    /\ StopModifyStartPath
    /\ input.ch = {"sap_profile"} /\ input.status = "ACTIVE"
    /\ calls = <<"CloudInstanceGet", "Action:immediate-shutdown", "Update:sap_profile">>
    /\ failedWaits = 1
    /\ hret = "err"

\* C14: a stop / modify / start path returns success only from the wait
\* that follows the start action, and that wait returns success only on a
\* fetch that showed the instance ACTIVE with health OK, never on one that
\* showed it stopped or building.
C14_SuccessOnlyWhenActive ==
    StopModifyStartPath =>
        /\ (/\ Len(calls) > 0 /\ calls[Len(calls)] = "Action:start"
            /\ wkind = "isWaitForPIInstanceAvailable"
            /\ Outcome(wret) = "Converged") =>
              /\ answered > 0
              /\ lastObs.err = "none" /\ lastObs.status = "ACTIVE" /\ lastObs.health = "OK"
        /\ hret = "ok" =>
              /\ Count("Action:start") = 1
              /\ wkind = "isWaitForPIInstanceAvailable"
              /\ Outcome(wret) = "Converged"
              /\ lastObs.err = "none" /\ lastObs.status = "ACTIVE" /\ lastObs.health = "OK"

C14_Witness ==
    /\ RebootPath
    /\ hret = "ok"
    /\ Count("Action:start") = 1
    /\ wkind = "isWaitForPIInstanceAvailable"
    /\ pend >= 1
    /\ lastObs.status = "ACTIVE" /\ lastObs.health = "OK"

\* What the handler knows of the instance when it issues a call: the
\* recorded status while no wait has run, afterwards the fetch on which its
\* last wait ended.
KnownStopped ==
    IF wkind = "none" THEN input.status = "SHUTOFF"
    ELSE /\ mpc = "idle"
         /\ Outcome(wret) = "Converged"
         /\ lastObs.err = "none" /\ lastObs.status = "SHUTOFF" /\ lastObs.health = "OK"
KnownRunning ==
    IF wkind = "none" THEN input.status # "SHUTOFF"
    ELSE /\ Outcome(wret) = "Converged"
         /\ lastObs.err = "none" /\ lastObs.status = "ACTIVE"

\* C15: in a processor-type or SAP-profile change no stop action is issued
\* on an instance that is stopped when the change starts, one stop action
\* is issued on an instance that is running then, and the Update of the
\* change is issued only on an instance that is stopped.
C15_UpdateOnlyWhileStopped ==
    [][(/\ handler = "resourceIBMPIInstanceUpdate"
        /\ input.ch \in {{"proc_type"}, {"sap_profile"}, {"proc_type", "sap_profile"}}) =>
          /\ Issued("Action:immediate-shutdown") => KnownRunning
          /\ (Issued("Update:proc_type") \/ Issued("Update:sap_profile")) => KnownStopped]_vars

\* C16: isWaitforPIInstanceUpdate takes RESIZE and VERIFY_RESIZE for
\* pending and ends with success on a fetch that shows the instance
\* either ACTIVE or SHUTOFF (health OK).
C16_UpdateWaitConvergesOnActiveOrShutoff ==
    (wkind = "isWaitforPIInstanceUpdate" /\ answered > 0 /\ lastObs.err = "none") =>
        /\ lastObs.status \in {"RESIZE", "VERIFY_RESIZE"} => pend = answered
        /\ (lastObs.status \in {"ACTIVE", "SHUTOFF"} /\ lastObs.health = "OK") =>
              /\ LoopEnded
              /\ (wret.returned /\ Undisturbed) => Outcome(wret) = "Converged"

\* C17: a change of memory or processors goes through stop / modify /
\* start exactly when a requested value exceeds its maximum and the
\* instance is not recorded SHUTOFF; otherwise the handler issues one
\* Update and neither a stop nor a start action.
C17_RebootExactlyWhenOverMax ==
    (handler = "resourceIBMPIInstanceUpdate" /\ input.ch = {"memory_processors"}) =>
        /\ Count("Update:memory_processors") <= 1
        /\ IF input.over # {} /\ input.status # "SHUTOFF"
           THEN /\ Count("Update:memory_processors") = 1 =>
                      (Count("Action:immediate-shutdown") = 1 /\ calls[2] = "Action:immediate-shutdown")
                /\ hret = "ok" => Count("Action:start") = 1
           ELSE /\ Count("Action:immediate-shutdown") = 0 /\ Count("Action:start") = 0
                /\ hret = "ok" =>
                      calls = <<"CloudInstanceGet", "Update:memory_processors", "Read">>

C17_Witness ==
    /\ handler = "resourceIBMPIInstanceUpdate" /\ input.ch = {"memory_processors"}
    /\ input.over = {"processors"} /\ input.status = "ACTIVE"
    /\ hret = "ok"
    /\ calls = <<"CloudInstanceGet", "Action:immediate-shutdown", "Update:memory_processors",
                 "Action:start", "Read">>

\* ------------------------------------------------------------------------
\* Properties of the error classification

\* The handler stands at its retried call (Create or Update of the cloud
\* connection), which it has issued at least once.
AtRetriedCall == Instr.op = "call" /\ Instr.name \in RetriedCalls /\ errs # <<>>
Attempts == Len(errs)

\* C18: when the first Create / Update of a cloud connection fails with
\* the VPC-unavailable error, the call is issued again at most
\* vpcRetryCount more times, each time after one sleep; no attempt follows
\* a successful one, and when every attempt failed the handler returns
\* the error of the last one, after all vpcRetryCount retries.
C18_BoundedRetryOfWholeCall ==
    (errs # <<>> /\ vpcUnavailable(errs[1])) =>
        /\ Attempts <= 1 + vpcRetryCount
        /\ Count("CloudConnectionCreate") + Count("CloudConnectionUpdate") = Attempts
        /\ slept = Attempts - 1 + (IF rpc = "slept" THEN 1 ELSE 0)
        /\ \A i \in 1..(Attempts - 1) : errs[i] # "ok"
        /\ (AtRetriedCall /\ hret = "err") =>
              /\ Attempts = 1 + vpcRetryCount
              /\ errs[Attempts] # "ok" /\ errMsg = errs[Attempts]
        /\ (AtRetriedCall /\ rpc = "idle") => hret = "err"
        /\ hret = "ok" => errs[Attempts] = "ok"

C18_Witness ==
    /\ handler = "resourceIBMPICloudConnectionCreate"
    /\ errs = <<"Unavailable", "Unavailable", "ok">>
    /\ slept = 2
    /\ hret = "ok" /\ dId = "set"

\* C19: in Create / Update of a cloud connection an error that does not
\* match vpcUnavailable is never followed by another attempt, be it the
\* error of the first call or of a retry.
C19_FatalErrorNeverRetried ==
    \A i \in 1..(Attempts - 1) : vpcUnavailable(errs[i])

DeleteHandlers ==
    {"resourceIBMPIVolumeDelete", "resourceIBMPIVolumeGroupDelete",
     "resourceIBMPISnapshotDelete", "resourceIBMPIVPNConnectionDelete",
     "resourceIBMPIInstanceDelete"}

\* C20: in a delete handler a remote error other than not found, of a
\* call or of a fetch of the delete wait, is not taken for the deletion:
\* the wait does not converge on it and the handler returns an error with
\* the resource ID still set.
C20_OnlyNotFoundMeansDeleted ==
    handler \in DeleteHandlers =>
        /\ errMsg = "Other" => (hret = "err" /\ dId = "set")
        /\ (wkind \in DeleteWaits /\ answered > 0 /\ lastObs.err = "Other") =>
              /\ wret.returned => Outcome(wret) # "Converged"
              /\ hret # "running" => (hret = "err" /\ dId = "set")

\* ------------------------------------------------------------------------
\* Properties of cancellation and termination

\* The wait's select has taken ctx.Done(): the cancel channel is closed
\* and not by the timeout.
CancelNoticed == cancelCh /\ ~tmo.fired

\* C21 as stated: a wait during which the context is done never returns
\* Converged.
C21_CancelledNeverConverges ==
    [][(ctxDone /\ mpc \in {"select", "grace"} /\ wret'.returned) =>
          Outcome(wret') # "Converged"]_vars

\* C21, amended: once the wait has noticed the cancellation it has
\* returned the context's error, which is not Converged, and from then on
\* no new fetch is started (a fetch in flight may still be answered).
C21_NoFetchAfterCancelNoticed ==
    /\ [](CancelNoticed => Outcome(wret) = "Cancelled")
    /\ [][(CancelNoticed /\ CancelNoticed') =>
             (fetches' = fetches /\ wret' = wret)]_vars

C21_Witness ==
    /\ wkind = "isWaitForIBMPIVolumeDeleted"
    /\ CancelNoticed
    /\ fetches = 2 /\ answered = 2 /\ gpc = "exit"
    /\ hret = "err" /\ dId = "set"

\* C22: every wait that is entered returns, whatever the fetches answer
\* (pending for ever included), and its return value, once produced, is
\* not replaced until the handler enters its next wait.
C22_WaitTerminatesWithOneOutcome ==
    /\ (mpc \in {"select", "grace"}) ~> (mpc = "returned" /\ wret.returned)
    /\ [][(wret.returned /\ wret' # wret) =>
             (mpc = "idle" /\ mpc' = "select" /\ ~wret'.returned)]_vars
    /\ [](wret.returned => Outcome(wret) \in {"Converged", "Failed", "TimedOut", "Cancelled"})

\* Every answer was a pending one, up to the bound of the model, and the
\* wait has returned.
C22_Witness ==
    /\ wkind = "isWaitForPIInstanceAvailable"
    /\ fetches = MaxFetches /\ pend = MaxFetches
    /\ ~ctxDone
    /\ Outcome(wret) = "TimedOut"

\* ------------------------------------------------------------------------
\* Properties of the composite identifiers

SepFree(ss) == \A i \in 1..Len(ss) : ~HasSep(ss[i])
Segments(id) == Len(Split(id))

\* C23: splitID of a + "/" + b, for a and b without the separator,
\* returns a and b and no error.
C23_SplitIDRoundTrip ==
    (ipc = "decoded" /\ dec.by = "splitID" /\ Len(segs) = 2 /\ SepFree(segs)) =>
        (dec.res = "ok" /\ dec.ids = segs)

C23_Witness ==
    /\ ipc = "decoded" /\ dec.by = "splitID"
    /\ builder = "resourceIBMPIVolumeCreate"
    /\ segs = <<(<<"a">>), <<"a", "a">>>>
    /\ dec.ids = segs

\* The number of parts a handler takes from the ID (the delete of the vPMEM
\* volumes takes as many as there are).
ExpectedSegments(by) ==
    IF by = "splitID" THEN 2 ELSE 3

\* C24: a handler given an ID with another number of segments than it
\* takes always returns the structural error: it decodes nothing, does
\* not panic and does not report the resource deleted.
C24_WrongSegmentCountIsError ==
    (/\ ipc = "decoded"
     /\ dec.by # "resourceIBMPIInstanceVpmenVolumesDelete"
     /\ Segments(token) # ExpectedSegments(dec.by)) =>
        dec.res = "error"

\* C25: an ID is built only from values without the separator.
C25_SegmentsCheckedAtBuild ==
    (ipc # "new" /\ builder \in Builders) => SepFree(segs)

\* ------------------------------------------------------------------------
\* Properties of the handlers' resource ID and timeouts

\* The handler is a create handler whose program has a wait.
WaitingCreate ==
    /\ handler \in CreateHandlers
    /\ \E i \in 1..Len(Program(handler, input)) : Program(handler, input)[i].op = "wait"
\* The create handlers that set the ID after their last wait.
LateSetter ==
    \/ handler = "resourceIBMPINetworkPortAttachCreate"
    \/ handler = "resourceIBMPINetworkSecurityGroupRuleCreate"
    \/ handler = "resourceIBMPIImageCreate" /\ "bucket_name" \in input.ch

\* C26 as stated: a create handler that waits has set the ID only once
\* its wait has converged.
C26_IdSetOnlyAfterConvergence ==
    (WaitingCreate /\ dId = "set") =>
        (wkind # "none" /\ Outcome(wret) = "Converged")

\* C26, amended: the network port attach and the image import set the ID
\* after their waits have converged and leave it unset when a wait fails;
\* every other create handler that waits has set the ID before its first
\* wait starts and returns the error of a failed wait with the ID set.
C26_IdSetBeforeOrAfterWait ==
    WaitingCreate =>
        IF LateSetter
        THEN /\ dId = "set" =>
                   (wkind # "none" /\ Outcome(wret) = "Converged" /\ failedWaits = 0)
             /\ failedWaits > 0 => (dId = "unset" /\ hret = "err")
        ELSE /\ wkind # "none" => dId = "set"
             /\ (hret = "err" /\ failedWaits > 0) => dId = "set"

C26_Witness ==
    /\ handler = "resourceIBMPIVolumeCreate"
    /\ Outcome(wret) = "TimedOut"
    /\ hret = "err" /\ failedWaits = 1
    /\ dId = "set"

\* The operation whose handler runs, by the handler's name.
OperationKind(h) ==
    IF h \in CreateHandlers THEN "create"
    ELSE IF h \in DeleteHandlers \cup {"resourceIBMPICloudConnectionDelete"} THEN "delete"
    ELSE "update"

\* C27: the timeout of a wait is the configured timeout of the operation
\* whose handler runs it.
C27_TimeoutOfTheOperation ==
    (mpc # "idle" /\ Instr.op = "wait") => Instr.tmo = OperationKind(handler)

\* C28: inside the volume wait and the job wait, a fetch that fails with a
\* transient error (the service is temporarily unavailable, an error other
\* than not-found) does not terminate the wait: the refresh loop goes on and
\* the wait does not return that failure.
C28_TransientFetchErrorKeepsPolling ==
    (/\ wkind \in {"isWaitForIBMPIVolumeAvailable", "waitForIBMPIJobCompleted"}
     /\ answered > 0
     /\ lastObs.err = "Other") =>
        /\ ~LoopEnded
        /\ Outcome(wret) # "Failed"

GoneOrJobDeletes ==
    {"resourceIBMPICloudConnectionDelete", "resourceIBMPIVPNConnectionDelete"}

\* C29: deleting a cloud connection or a VPN connection that is already gone
\* (not-found from the Get before the delete, resp. from the Delete call)
\* returns success with the ID cleared, after that single remote call and
\* without a job wait; when the delete returned a job, the ID is cleared
\* only after the job wait has succeeded.
C29_GoneIsSuccessJobWaitedFor ==
    handler \in GoneOrJobDeletes =>
        /\ errMsg = "NotFound" =>
              /\ hret = "ok" /\ dId = ""
              /\ Len(calls) = 1 /\ wkind = "none"
        /\ (input.jobRef /\ dId = "" /\ errMsg # "NotFound") =>
              /\ wkind = "waitForIBMPIJobCompleted"
              /\ Outcome(wret) = "Converged"
              /\ JobCompleted(lastObs)
C29_Witness ==
    /\ handler = "resourceIBMPIVPNConnectionDelete"
    /\ input.jobRef
    /\ calls = <<"VPNConnectionDelete">>
    /\ Outcome(wret) = "Converged"
    /\ dId = "" /\ hret = "ok"

\* C30: after a successful create of a network security group rule, in the
\* add mode (ID of three segments) and in the remove mode (ID of two), the
\* ID is not empty and its first two segments are the cloud instance and the
\* group: splitID of it fails in neither mode and returns these two, which
\* the read that follows fetches the group with.
C30_RuleIdDecodesToGroup ==
    (builder \in RuleBuilders /\ ipc # "new") =>
        /\ token # <<>>
        /\ Segments(token) =
              (IF builder = "resourceIBMPINetworkSecurityGroupRuleCreate:add"
               THEN 3 ELSE 2)
        /\ splitID(token) = [id1 |-> segs[1], id2 |-> segs[2], err |-> FALSE]
        /\ (ipc = "decoded" /\ dec.by = "splitID") =>
              (dec.res = "ok" /\ dec.ids = <<segs[1], segs[2]>>)
C30_Witness ==
    /\ builder = "resourceIBMPINetworkSecurityGroupRuleCreate:add"
    /\ ipc = "decoded" /\ dec.by = "splitID"
    /\ Segments(token) = 3
    /\ segs[1] # segs[2] /\ segs[3] # segs[1]
    /\ dec.res = "ok" /\ dec.ids = <<segs[1], segs[2]>>

\* ------------------------------------------------------------------------
\* Properties of the instance, rule and port handlers

\* The fetch shows a created instance ready: ACTIVE (SHUTOFF for the
\* deployment type VMNoStorage) with the requested health status or OK.
InstanceReady(o) ==
    /\ o.err = "none"
    /\ o.status = (IF input.noStorage THEN "SHUTOFF" ELSE "ACTIVE")
    /\ o.health \in {input.ready, "OK"}
AtCreateWait ==
    /\ handler = "resourceIBMPIInstanceCreate"
    /\ wkind \in {"isWaitForPIInstanceAvailable", "isWaitForPIInstanceShutoff"}

\* C31: the wait of the instance create converges exactly on a fetch that
\* shows the instance ACTIVE (SHUTOFF for VMNoStorage) with the requested
\* health status or OK: only on such a fetch, and, undisturbed, always on
\* it; with the ready status OK never on a fetch with health WARNING.
C31_CreateWaitConvergesOnReadyHealth ==
    AtCreateWait =>
        /\ wkind = (IF input.noStorage THEN "isWaitForPIInstanceShutoff"
                    ELSE "isWaitForPIInstanceAvailable")
        /\ Outcome(wret) = "Converged" => (answered > 0 /\ InstanceReady(lastObs))
        /\ (Outcome(wret) = "Converged" /\ input.ready = "OK") =>
              lastObs.health # "WARNING"
        /\ (answered > 0 /\ InstanceReady(lastObs)) =>
              /\ LoopEnded
              /\ (wret.returned /\ Undisturbed) => Outcome(wret) = "Converged"
C31_Witness ==
    /\ AtCreateWait
    /\ input.noStorage /\ input.ready = "WARNING"
    /\ pend = 1 /\ answered = 2
    /\ lastObs.status = "SHUTOFF" /\ lastObs.health = "WARNING"
    /\ Outcome(wret) = "Converged"

\* The number of waits the handler has left behind it: each of them
\* returned without an error.
WaitsPassed ==
    Cardinality({i \in 1..(hpc - 1) : Program(handler, input)[i].op = "wait"})

\* C32: a create that returned several instances reports success only
\* after one wait per instance has converged on a ready fetch; the waits
\* run one after another, in the order of the list, and the first failed
\* wait ends the create with an error, no wait of a further instance being
\* started.
C32_EveryReplicaWaitedInOrder ==
    /\ [](handler = "resourceIBMPIInstanceCreate" =>
            /\ WaitsPassed <= input.n
            /\ mpc # "idle" => (AtCreateWait /\ WaitsPassed < input.n)
            /\ hret = "ok" => (WaitsPassed = input.n /\ failedWaits = 0)
            /\ failedWaits <= 1
            /\ failedWaits = 1 =>
                  (hret = "err" /\ mpc = "idle" /\ WaitsPassed < input.n))
    /\ [][(handler = "resourceIBMPIInstanceCreate" /\ WaitsPassed' # WaitsPassed) =>
            /\ WaitsPassed' = WaitsPassed + 1
            /\ Outcome(wret) = "Converged"
            /\ InstanceReady(lastObs)]_vars
C32_Witness ==
    /\ handler = "resourceIBMPIInstanceCreate"
    /\ input.n = 2
    /\ WaitsPassed = 1
    /\ failedWaits = 1
    /\ hret = "err"

\* C33: in an update that changes only the name, the wait that follows the
\* Update call ends with success on a fetch that shows the instance SHUTOFF
\* with health OK, as SHUTOFF is in its Target: it does not take the fetch
\* for a pending one and poll on until the timeout.
C33_NameUpdateOfStoppedInstanceCompletes ==
    (/\ handler = "resourceIBMPIInstanceUpdate"
     /\ input.ch = {"name"}
     /\ wkind = "isWaitForPIInstanceAvailable"
     /\ answered > 0
     /\ lastObs.err = "none" /\ lastObs.status = "SHUTOFF" /\ lastObs.health = "OK") =>
        /\ LoopEnded
        /\ pend < answered
        /\ (wret.returned /\ Undisturbed) => Outcome(wret) = "Converged"

\* C34: the rule-remove wait of a network security group ends with success
\* on the first fetch whose rules do not hold the rule, a missing or empty
\* list of rules included, and takes a fetch that holds the rule for a
\* pending one; the rule-add wait ends with success only on a fetch whose
\* rules hold the rule.
C34_RuleWaitsFollowTheRuleList ==
    /\ (/\ wkind = "isWaitForIBMPINetworkSecurityGroupRuleRemove"
        /\ answered > 0 /\ lastObs.err = "none") =>
          IF lastObs.shape = "has"
          THEN pend = answered
          ELSE /\ LoopEnded
               /\ pend = answered - 1
               /\ (wret.returned /\ Undisturbed) => Outcome(wret) = "Converged"
    /\ (/\ wkind = "isWaitForIBMPINetworkSecurityGroupRuleAdd"
        /\ Outcome(wret) = "Converged") =>
          (answered > 0 /\ lastObs.err = "none" /\ lastObs.shape = "has")

\* C35: when the AddRule call of the rule's create fails, the handler
\* returns the error: it does not panic, starts no wait and sets no ID.
C35_AddRuleErrorIsReturned ==
    (/\ handler = "resourceIBMPINetworkSecurityGroupRuleCreate"
     /\ calls = <<"AddRule">>
     /\ errMsg # "nil") =>
        (hret = "err" /\ wkind = "none" /\ dId = "unset")

AtPortAttach == handler = "resourceIBMPINetworkPortAttachCreate"

\* C36: the port attach create issues UpdatePort only once a fetch has
\* shown the new port DOWN, and sets the ID only once a later fetch has
\* shown it ACTIVE and attached to the requested instance; when CreatePort,
\* UpdatePort or one of the two waits fails, the handler returns the error
\* with no ID set and issues no further call or fetch.
C36_AttachAfterDownIdAfterActive ==
    /\ [][(AtPortAttach /\ calls' = Append(calls, "UpdatePort")) =>
            /\ calls = <<"CreatePort">>
            /\ wkind = "isWaitForIBMPINetworkportAvailable"
            /\ Outcome(wret) = "Converged"
            /\ lastObs.err = "none" /\ lastObs.status = "DOWN"]_vars
    /\ [][(AtPortAttach /\ dId' # dId) =>
            /\ dId' = "set"
            /\ calls = <<"CreatePort", "UpdatePort">>
            /\ wkind = "isWaitForIBMPINetworkPortAttachAvailable"
            /\ Outcome(wret) = "Converged"
            /\ lastObs.err = "none" /\ lastObs.status = "ACTIVE"
            /\ lastObs.shape = "ok"]_vars
    /\ [](AtPortAttach =>
            /\ (failedWaits > 0 \/ (errMsg # "nil" /\ Len(calls) <= 2)) =>
                  (hret = "err" /\ dId = "unset")
            /\ dId = "set" => (failedWaits = 0 /\ Len(calls) >= 2))
    /\ [][(AtPortAttach /\ hret = "err") =>
            (calls' = calls /\ fetches' = fetches /\ dId' = dId)]_vars
C36_Witness ==
    /\ AtPortAttach
    /\ calls = <<"CreatePort", "UpdatePort">>
    /\ wkind = "isWaitForIBMPINetworkPortAttachAvailable"
    /\ Outcome(wret) = "Converged"
    /\ pend = 1 /\ answered = 2
    /\ dId = "set"

\* C37: an update of an instance whose recorded health_status is WARNING
\* returns an error before any remote call: no update, stop or start is
\* issued, no wait or fetch is made, and the remote instance and the ID are
\* left as they were.
C37_WarningHealthRejectsUpdate ==
    (handler = "resourceIBMPIInstanceUpdate" /\ input.health = "WARNING") =>
        /\ calls = <<>>
        /\ wkind = "none" /\ fetches = 0
        /\ mutation = "none"
        /\ dId = "set"
        /\ hret \in {"running", "err"}
C37_Witness ==
    /\ handler = "resourceIBMPIInstanceUpdate"
    /\ input.health = "WARNING"
    /\ hret = "err"
    /\ calls = <<>>

\* The volume IDs that the resource ID held before the delete, in order.
EncodedVolumes ==
    IF builder = "resourceIBMPIInstanceVpmenVolumesCreate"
    THEN SubSeq(segs, 3, Len(segs))
    ELSE LET p == Split(Sprintf(segs)) IN SubSeq(p, 3, Len(p))

\* C38: the delete of a vPMEM volumes resource issues its delete calls for
\* the volume IDs that follow the second segment of the ID, one call each,
\* in their order in the ID; it clears the ID exactly when every one of
\* them succeeded, and on the first failing delete it has issued no call
\* for a later volume and leaves the ID as it was.
C38_OneDeletePerEncodedVolume ==
    (ipc = "decoded" /\ dec.by = "resourceIBMPIInstanceVpmenVolumesDelete") =>
        /\ Len(dec.ids) <= Len(EncodedVolumes)
        /\ dec.ids = SubSeq(EncodedVolumes, 1, Len(dec.ids))
        /\ dec.res \in {"deleted", "error"}
        /\ dec.res = "deleted" => (dec.ids = EncodedVolumes /\ token = <<>>)
        /\ dec.res = "error" => token = Sprintf(segs)
C38_Witness ==
    /\ ipc = "decoded" /\ dec.by = "resourceIBMPIInstanceVpmenVolumesDelete"
    /\ builder = "resourceIBMPIInstanceVpmenVolumesCreate"
    /\ Len(segs) = 4 /\ segs[3] # segs[4]
    /\ dec.res = "deleted"
    /\ dec.ids = <<segs[3], segs[4]>>
    /\ token = <<>>

====
